---- MODULE Spec2Model ----
(***************************************************************************)
(* The TODO server of mudler/MCPs: the task list kept in one JSON file     *)
(* (todo/storage.go), and the service that validates and applies every     *)
(* operation inside one WithLock / Load / Save critical section            *)
(* (todo/service.go).                                                      *)
(*                                                                         *)
(* Spec      : one service; each action is one whole call of a Service      *)
(*             method (validation before the lock, WithLock, Load,         *)
(*             validation, mutation, Save), with the storage fault that    *)
(*             call meets as an input. Two ids, every input.               *)
(* SpecGraph : the same calls over three ids, with working storage and     *)
(*             unassigned tasks: the dependency graphs of three tasks.     *)
(* SpecFS    : several processes on one backing file, each call taken step *)
(*             by step (lock attempts, Load, the closure, the steps of     *)
(*             Save, Unlock), also calling Load without taking the lock.   *)
(***************************************************************************)
EXTENDS Integers, Sequences, FiniteSets, TLC

VARIABLES
    file,   \* the backing file fs.filePath: [kind, items]
    last,   \* Spec, SpecGraph: the call that has just returned, or Idle
    temp,   \* the temporary file fs.filePath + ".tmp"
    lock,   \* the holder of the flock on fs.filePath + ".lock", or NoProc
    pc,     \* SpecFS: where each process is in its call
    call,   \* SpecFS: the call each process is making
    mem,    \* SpecFS: the list a process holds in memory inside the lock
    tries,  \* SpecFS: the lock attempts a process has made in this call
    ret     \* SpecFS: the error kind a process's call returns

svcVars == <<file, last>>
fsVars == <<temp, lock, pc, call, mem, tries, ret>>
vars == <<file, last, temp, lock, pc, call, mem, tries, ret>>

----------------------------------------------------------------------------
(* Inputs and bounds *)

\* longest depends_on argument given to AddTODO under Spec
MaxDepsArg == 2

SeqsUpTo(S, n) == UNION {[1..k -> S] : k \in 0..n}
Range(s) == {s[i] : i \in 1..Len(s)}

ValidStatusesLoose == {"pending", "in_progress", "done", "bogus"}
ValidStatuses == {"pending", "in_progress", "done"}
StatusInputs == ValidStatuses \cup {"bogus"}
AgentInputs == {"", "a1", "a2"}
TitleInputs == {"", "A"}

\* Spec: two ids (and the empty id, which AddTODO rejects), assigned and
\* unassigned tasks, depends_on arguments with repeated ids, and the storage
\* faults: lock not acquired in time, Load failing, Save failing
IDs == {"t1", "t2"}
IDInputs == IDs \cup {""}
AssigneeInputs == {"", "a1"}
DepsInputs == SeqsUpTo(IDs, MaxDepsArg)
Faults == {"none", "lock", "load", "save"}

\* SpecGraph: three ids, depends_on arguments without repeated ids
GraphIDs == {"t1", "t2", "t3"}
GraphDepsInputs ==
    {s \in SeqsUpTo(GraphIDs, Cardinality(GraphIDs)) :
        \A i, j \in 1..Len(s) : i # j => s[i] # s[j]}

\* SpecFS: the processes that share the backing file, and the calls they make
Procs == {"p1", "p2"}
NoProc == "none"
NoCall == [op |-> "none"]
\* lock attempts TryLockContext makes before its context expires; the code's
\* 5 s deadline with a 100 ms retry delay allows about 50
MaxTries == 2

----------------------------------------------------------------------------
(* todo/types: TODOItem, TODOList and their JSON form *)

TODOItem(id, title, status, assignee, dependsOn) ==
    [id |-> id, title |-> title, status |-> status, assignee |-> assignee,
     depends_on |-> dependsOn]

\* as MarshalItem, with depends_on left out of the document altogether
MarshalItemNoDeps(item) ==
    [id |-> item.id, title |-> item.title, status |-> item.status,
     assignee |-> item.assignee]

\* json.MarshalIndent of one item: depends_on has `omitempty`, so an empty
\* slice leaves the key out of the document
MarshalItem(item) ==
    IF Len(item.depends_on) = 0
    THEN [id |-> item.id, title |-> item.title, status |-> item.status,
          assignee |-> item.assignee]
    ELSE [id |-> item.id, title |-> item.title, status |-> item.status,
          assignee |-> item.assignee, depends_on |-> item.depends_on]

\* json.Unmarshal of one item: a missing depends_on key leaves the nil slice,
\* of length 0
UnmarshalItem(obj) ==
    TODOItem(obj.id, obj.title, obj.status, obj.assignee,
             IF "depends_on" \in DOMAIN obj THEN obj.depends_on ELSE <<>>)

Marshal(list) == [i \in 1..Len(list) |-> MarshalItem(list[i])]
Unmarshal(doc) == [i \in 1..Len(doc) |-> UnmarshalItem(doc[i])]

\* what a path holds: nothing, a zero-length file, a whole JSON document, or
\* the first bytes of one
NoFile == [kind |-> "absent", items |-> <<>>]
EmptyFile == [kind |-> "empty", items |-> <<>>]
JSONFile(list) == [kind |-> "json", items |-> Marshal(list)]
TornFile == [kind |-> "torn", items |-> <<>>]

\* as Load, without the test of the length of the data before json.Unmarshal
LoadNoLengthTest(f) ==
    IF f.kind = "absent" THEN [err |-> "ok", list |-> <<>>]
    ELSE IF f.kind = "json" THEN [err |-> "ok", list |-> Unmarshal(f.items)]
    ELSE [err |-> "LoadError", list |-> <<>>]

\* FileStorage.Load of a path holding f: no file and a zero-length file give
\* the empty list, a whole document its list, anything else a parse error
Load(f) ==
    IF f.kind = "absent" THEN [err |-> "ok", list |-> <<>>]
    ELSE IF f.kind = "empty" THEN [err |-> "ok", list |-> <<>>]
    ELSE IF f.kind = "json" THEN [err |-> "ok", list |-> Unmarshal(f.items)]
    ELSE [err |-> "LoadError", list |-> <<>>]

----------------------------------------------------------------------------
(* todo/service.go: helpers *)

\* index of the first item with this id, 0 for nil
findTODOByID(list, id) ==
    IF \E i \in 1..Len(list) : list[i].id = id
    THEN CHOOSE i \in 1..Len(list) :
            list[i].id = id /\ \A j \in 1..(i - 1) : list[j].id # id
    ELSE 0

\* as validateDependenciesExist, looking at the first id only
validateDependenciesExistFirst(list, dependsOn) ==
    Len(dependsOn) = 0 \/ findTODOByID(list, dependsOn[1]) # 0

validateDependenciesExist(list, dependsOn) ==
    \A k \in 1..Len(dependsOn) : findTODOByID(list, dependsOn[k]) # 0

\* as validateIDUniqueness, comparing with the newest item only
validateIDUniquenessNewest(list, id) ==
    Len(list) = 0 \/ list[Len(list)].id # id

validateIDUniqueness(list, id) == findTODOByID(list, id) = 0

\* as checkDependenciesSatisfied, looking at the first dependency only
checkDependenciesSatisfiedFirst(list, item) ==
    SelectSeq(IF Len(item.depends_on) = 0 THEN <<>> ELSE <<item.depends_on[1]>>,
              LAMBDA d : findTODOByID(list, d) = 0
                         \/ list[findTODOByID(list, d)].status # "done")

\* the blocking ids, in depends_on order; satisfied iff there is none
checkDependenciesSatisfied(list, item) ==
    SelectSeq(item.depends_on,
              LAMBDA d : findTODOByID(list, d) = 0
                         \/ list[findTODOByID(list, d)].status # "done")

\* the blockingInfo of UpdateStatus, first with the bare id in every case,
\* then as the code has it: "id (status)", or the bare id when the
\* dependency resolves to no item
blockingInfoBare(list, blocking) == [k \in 1..Len(blocking) |-> <<blocking[k]>>]

blockingInfo(list, blocking) ==
    [k \in 1..Len(blocking) |->
        IF findTODOByID(list, blocking[k]) # 0
        THEN <<blocking[k], list[findTODOByID(list, blocking[k])].status>>
        ELSE <<blocking[k]>>]

RECURSIVE findDependentsFrom(_, _, _)
findDependentsFrom(list, id, i) ==
    IF i > Len(list) THEN <<>>
    ELSE (IF \E k \in 1..Len(list[i].depends_on) : list[i].depends_on[k] = id
          THEN <<list[i].id>> ELSE <<>>)
         \o findDependentsFrom(list, id, i + 1)

\* as findDependents, returning at the first dependent found
findDependentsFirst(list, id) ==
    IF Len(findDependentsFrom(list, id, 1)) = 0 THEN <<>>
    ELSE <<findDependentsFrom(list, id, 1)[1]>>

findDependents(list, id) == findDependentsFrom(list, id, 1)

\* the depth-first search of detectCircularDependency, the visited map
\* threaded through the calls
RECURSIVE dfs(_, _, _, _)
RECURSIVE dfsDeps(_, _, _, _, _)
dfs(list, todoID, id, visited) ==
    IF id = todoID THEN [found |-> TRUE, visited |-> visited]
    ELSE IF id \in visited THEN [found |-> FALSE, visited |-> visited]
    ELSE LET idx == findTODOByID(list, id)
             v == visited \cup {id}
         IN IF idx = 0 THEN [found |-> FALSE, visited |-> v]
            ELSE dfsDeps(list, todoID, list[idx].depends_on, 1, v)

dfsDeps(list, todoID, deps, k, visited) ==
    IF k > Len(deps) THEN [found |-> FALSE, visited |-> visited]
    ELSE LET r == dfs(list, todoID, deps[k], visited)
         IN IF r.found THEN r
            ELSE dfsDeps(list, todoID, deps, k + 1, r.visited)

\* as detectCircularDependency, with the search run the other way round
detectCircularDependencySwapped(list, todoID, dependsOnID) ==
    dfs(list, dependsOnID, todoID, {}).found

\* as detectCircularDependency, without the recursion: the direct
\* dependencies of dependsOnID only
detectCircularDependencyDirect(list, todoID, dependsOnID) ==
    \/ dependsOnID = todoID
    \/ /\ findTODOByID(list, dependsOnID) # 0
       /\ todoID \in Range(list[findTODOByID(list, dependsOnID)].depends_on)

\* as detectCircularDependency, also reporting a cycle when the search from
\* dependsOnID meets a task that todoID already reaches
detectCircularDependencyShared(list, todoID, dependsOnID) ==
    \/ dfs(list, todoID, dependsOnID, {}).found
    \/ dfs(list, "", todoID, {}).visited
          \cap dfs(list, todoID, dependsOnID, {}).visited # {}

detectCircularDependency(list, todoID, dependsOnID) ==
    dfs(list, todoID, dependsOnID, {}).found

----------------------------------------------------------------------------
(* todo/service.go: what each method does between Load and Save.           *)
(* [err, list, out, save]: whether the closure reaches its Save, the list   *)
(* it hands to it, the error kind it returns ("ok" for nil, Save's own      *)
(* error apart) and the payload of the result or error                     *)

Fail(kind, list, out) == [err |-> kind, list |-> list, out |-> out, save |-> FALSE]
Store(list, out) == [err |-> "ok", list |-> list, out |-> out, save |-> TRUE]

\* as AddTODOBody, with the dependencies looked up once the task is in the
\* list
AddTODOBodyValidateAfter(list, id, title, assignee, dependsOn) ==
    IF ~validateIDUniqueness(list, id) THEN Fail("Conflict", list, <<>>)
    ELSE IF ~validateDependenciesExist(
                 Append(list, TODOItem(id, title, "pending", assignee, dependsOn)),
                 dependsOn)
    THEN Fail("NotFound", list, <<>>)
    ELSE Store(Append(list, TODOItem(id, title, "pending", assignee, dependsOn)),
               <<id>>)

AddTODOBody(list, id, title, assignee, dependsOn) ==
    IF ~validateIDUniqueness(list, id) THEN Fail("Conflict", list, <<>>)
    ELSE IF ~validateDependenciesExist(list, dependsOn)
    THEN Fail("NotFound", list, <<>>)
    ELSE Store(Append(list, TODOItem(id, title, "pending", assignee, dependsOn)),
               <<id>>)

\* the gate and the assignment of UpdateStatus, first with the gate applied
\* whatever the current status, then as the code has them, and below those
\* of UpdateStatusWithAgent
GateAndSetAnyStatus(list, i, status) ==
    LET blocking == checkDependenciesSatisfied(list, list[i])
    IN IF status \in {"in_progress", "done"} /\ Len(blocking) # 0
       THEN Fail("Blocked", list, blockingInfo(list, blocking))
       ELSE Store([list EXCEPT ![i].status = status], <<>>)

GateAndSet(list, i, status) ==
    LET blocking == checkDependenciesSatisfied(list, list[i])
    IN IF status = "in_progress" /\ list[i].status = "pending" /\ Len(blocking) # 0
       THEN Fail("Blocked", list, blockingInfo(list, blocking))
       ELSE IF status = "done" /\ list[i].status = "pending" /\ Len(blocking) # 0
       THEN Fail("Blocked", list, blockingInfo(list, blocking))
       ELSE Store([list EXCEPT ![i].status = status], <<>>)

\* as GateAndSetWithAgent, with the gate on the way to in_progress only
GateAndSetWithAgentDoneFree(list, i, status) ==
    LET blocking == checkDependenciesSatisfied(list, list[i])
    IN IF status = "in_progress" /\ list[i].status = "pending"
       THEN (IF Len(blocking) # 0
             THEN Fail("Blocked", list, blockingInfo(list, blocking))
             ELSE Store([list EXCEPT ![i].status = status], <<>>))
       ELSE Store([list EXCEPT ![i].status = status], <<>>)

GateAndSetWithAgent(list, i, status) ==
    LET blocking == checkDependenciesSatisfied(list, list[i])
    IN IF status = "in_progress" /\ list[i].status = "pending"
       THEN (IF Len(blocking) # 0
             THEN Fail("Blocked", list, blockingInfo(list, blocking))
             ELSE Store([list EXCEPT ![i].status = status], <<>>))
       ELSE IF status = "done" /\ list[i].status = "pending"
       THEN (IF Len(blocking) # 0
             THEN Fail("Blocked", list, blockingInfo(list, blocking))
             ELSE Store([list EXCEPT ![i].status = status], <<>>))
       ELSE Store([list EXCEPT ![i].status = status], <<>>)

UpdateStatusBody(list, id, status) ==
    LET i == findTODOByID(list, id)
    IN IF i = 0 THEN Fail("NotFound", list, <<>>)
       ELSE GateAndSet(list, i, status)

\* as UpdateStatusWithAgentBody, with a task assigned to no one open to all
UpdateStatusWithAgentBodyUnassigned(list, id, status, agentName) ==
    LET i == findTODOByID(list, id)
    IN IF i = 0 THEN Fail("NotFound", list, <<>>)
       ELSE IF list[i].assignee # "" /\ list[i].assignee # agentName
       THEN Fail("PermissionDenied", list, <<>>)
       ELSE GateAndSetWithAgent(list, i, status)

UpdateStatusWithAgentBody(list, id, status, agentName) ==
    LET i == findTODOByID(list, id)
    IN IF i = 0 THEN Fail("NotFound", list, <<>>)
       ELSE IF list[i].assignee = "" THEN Fail("PermissionDenied", list, <<>>)
       ELSE IF list[i].assignee # agentName THEN Fail("PermissionDenied", list, <<>>)
       ELSE GateAndSetWithAgent(list, i, status)

\* as UpdateAssigneeBody, with the task moved to the end of the list
UpdateAssigneeBodyMoveLast(list, id, assignee) ==
    LET i == findTODOByID(list, id)
    IN IF i = 0 THEN Fail("NotFound", list, <<>>)
       ELSE Store(Append(SelectSeq(list, LAMBDA item : item.id # id),
                         [list[i] EXCEPT !.assignee = assignee]), <<>>)

UpdateAssigneeBody(list, id, assignee) ==
    LET i == findTODOByID(list, id)
    IN IF i = 0 THEN Fail("NotFound", list, <<>>)
       ELSE Store([list EXCEPT ![i].assignee = assignee], <<>>)

\* as RemoveTODOBody, without the search for dependents
RemoveTODOBodyUnguarded(list, id) ==
    IF \A i \in 1..Len(list) : list[i].id # id
    THEN Fail("NotFound", list, <<>>)
    ELSE Store(SelectSeq(list, LAMBDA item : item.id # id), <<>>)

RemoveTODOBody(list, id) ==
    LET dependents == findDependents(list, id)
    IN IF Len(dependents) > 0 THEN Fail("Conflict", list, dependents)
       ELSE IF \A i \in 1..Len(list) : list[i].id # id
       THEN Fail("NotFound", list, <<>>)
       ELSE Store(SelectSeq(list, LAMBDA item : item.id # id), <<>>)

\* as AddDependencyBody, with the new dependency put first
AddDependencyBodyPrepend(list, todoID, dependsOnID) ==
    LET i == findTODOByID(list, todoID)
    IN IF i = 0 THEN Fail("NotFound", list, <<>>)
       ELSE IF findTODOByID(list, dependsOnID) = 0 THEN Fail("NotFound", list, <<>>)
       ELSE IF detectCircularDependency(list, todoID, dependsOnID)
       THEN Fail("CircularDependency", list, <<>>)
       ELSE IF \E k \in 1..Len(list[i].depends_on) :
                  list[i].depends_on[k] = dependsOnID
       THEN Fail("Conflict", list, <<>>)
       ELSE Store([list EXCEPT ![i].depends_on = <<dependsOnID>> \o @], <<>>)

\* as AddDependencyBody, appending and saving before the duplicate check
AddDependencyBodySaveFirst(list, todoID, dependsOnID) ==
    LET i == findTODOByID(list, todoID)
    IN IF i = 0 THEN Fail("NotFound", list, <<>>)
       ELSE IF findTODOByID(list, dependsOnID) = 0 THEN Fail("NotFound", list, <<>>)
       ELSE IF detectCircularDependency(list, todoID, dependsOnID)
       THEN Fail("CircularDependency", list, <<>>)
       ELSE [err |-> IF dependsOnID \in Range(list[i].depends_on)
                     THEN "Conflict" ELSE "ok",
             list |-> [list EXCEPT ![i].depends_on = Append(@, dependsOnID)],
             out |-> <<>>, save |-> TRUE]

AddDependencyBody(list, todoID, dependsOnID) ==
    LET i == findTODOByID(list, todoID)
    IN IF i = 0 THEN Fail("NotFound", list, <<>>)
       ELSE IF findTODOByID(list, dependsOnID) = 0 THEN Fail("NotFound", list, <<>>)
       ELSE IF detectCircularDependency(list, todoID, dependsOnID)
       THEN Fail("CircularDependency", list, <<>>)
       ELSE IF \E k \in 1..Len(list[i].depends_on) :
                  list[i].depends_on[k] = dependsOnID
       THEN Fail("Conflict", list, <<>>)
       ELSE Store([list EXCEPT ![i].depends_on = Append(@, dependsOnID)], <<>>)

\* as RemoveDependencyBody, with an edge that is not there an error
RemoveDependencyBodyStrict(list, todoID, dependsOnID) ==
    LET i == findTODOByID(list, todoID)
    IN IF i = 0 THEN Fail("NotFound", list, <<>>)
       ELSE IF \A k \in 1..Len(list[i].depends_on) :
                  list[i].depends_on[k] # dependsOnID
       THEN Fail("NotFound", list, <<>>)
       ELSE Store([list EXCEPT ![i].depends_on =
                       SelectSeq(@, LAMBDA d : d # dependsOnID)], <<>>)

RemoveDependencyBody(list, todoID, dependsOnID) ==
    LET i == findTODOByID(list, todoID)
    IN IF i = 0 THEN Fail("NotFound", list, <<>>)
       ELSE Store([list EXCEPT ![i].depends_on =
                       SelectSeq(@, LAMBDA d : d # dependsOnID)], <<>>)

----------------------------------------------------------------------------
(* todo/service.go: the queries, which load and never save *)

\* a closure that returns nil without a Save, and what the method returns
Answer(list, out) == [err |-> "ok", list |-> list, out |-> out, save |-> FALSE]

ListTODOsBody(list) == Answer(list, list)

\* the number of items the loop counts under a test
CountItems(list, field, value) ==
    Cardinality({i \in 1..Len(list) : list[i][field] = value})

\* as GetStatusBody, counting the items with no assignee under ""
GetStatusBodyCountsEmpty(list) ==
    Answer(list,
           [Total |-> Len(list),
            Pending |-> CountItems(list, "status", "pending"),
            InProgress |-> CountItems(list, "status", "in_progress"),
            Done |-> CountItems(list, "status", "done"),
            Blocked |-> 0,
            Ready |-> 0,
            ByAssignee |->
                [a \in {list[i].assignee : i \in 1..Len(list)} |->
                    CountItems(list, "assignee", a)]])

GetStatusBody(list) ==
    Answer(list,
           [Total |-> Len(list),
            Pending |-> CountItems(list, "status", "pending"),
            InProgress |-> CountItems(list, "status", "in_progress"),
            Done |-> CountItems(list, "status", "done"),
            Blocked |-> 0,
            Ready |-> 0,
            ByAssignee |->
                [a \in {list[i].assignee : i \in 1..Len(list)} \ {""} |->
                    CountItems(list, "assignee", a)]])

\* as readyItems, taking for ready only the tasks without dependencies
readyItemsNoDeps(list) ==
    SelectSeq(list, LAMBDA item :
        item.status = "pending" /\ Len(item.depends_on) = 0)

\* as readyItems, without the test of the status
readyItemsAnyStatus(list) ==
    SelectSeq(list, LAMBDA item : Len(checkDependenciesSatisfied(list, item)) = 0)

\* the items GetReadyTODOs appends, in the order of the list
readyItems(list) ==
    SelectSeq(list, LAMBDA item :
        item.status = "pending" /\ Len(checkDependenciesSatisfied(list, item)) = 0)

GetReadyTODOsBody(list) == Answer(list, readyItems(list))

\* BlockingInfo, DependencyInfo: id, title and status of an item
ItemInfo(item) == [id |-> item.id, title |-> item.title, status |-> item.status]

\* the infos of those of the ids that name an item, in the order of the ids
InfosOf(list, ids) ==
    LET found == SelectSeq(ids, LAMBDA d : findTODOByID(list, d) # 0)
    IN [k \in 1..Len(found) |-> ItemInfo(list[findTODOByID(list, found[k])])]

BlockedTODO(list, item) ==
    [id |-> item.id, title |-> item.title, status |-> item.status,
     assignee |-> item.assignee,
     blocked_by |-> InfosOf(list, checkDependenciesSatisfied(list, item))]

\* as blockedItems, counting a task blocked only when none of its
\* dependencies is done
blockedItemsAllUndone(list) ==
    SelectSeq(list, LAMBDA item :
        /\ item.status = "pending" /\ Len(item.depends_on) > 0
        /\ Len(checkDependenciesSatisfied(list, item)) = Len(item.depends_on))

\* the items GetBlockedTODOs reports, in the order of the list
blockedItems(list) ==
    SelectSeq(list, LAMBDA item :
        /\ item.status = "pending" /\ Len(item.depends_on) > 0
        /\ Len(checkDependenciesSatisfied(list, item)) # 0)

GetBlockedTODOsBody(list) ==
    Answer(list, [k \in 1..Len(blockedItems(list)) |->
                    BlockedTODO(list, blockedItems(list)[k])])

\* collectTransitive, and its loop over the dependencies of an item; st is
\* the visited map and result.Transitive so far
RECURSIVE collectTransitive(_, _, _, _)
RECURSIVE collectEach(_, _, _, _, _)
\* as collectTransitive, without the map of the ids visited
collectTransitiveNoVisited(list, depID, directMap, st) ==
    IF depID \in directMap THEN st
    ELSE LET i == findTODOByID(list, depID)
         IN IF i = 0 THEN st
            ELSE collectEach(list, list[i].depends_on, 1, directMap,
                             [visited |-> st.visited,
                              out |-> Append(st.out, ItemInfo(list[i]))])

collectTransitive(list, depID, directMap, st) ==
    IF depID \in st.visited \/ depID \in directMap THEN st
    ELSE LET i == findTODOByID(list, depID)
             seen == st.visited \cup {depID}
         IN IF i = 0 THEN [visited |-> seen, out |-> st.out]
            ELSE collectEach(list, list[i].depends_on, 1, directMap,
                             [visited |-> seen,
                              out |-> Append(st.out, ItemInfo(list[i]))])

collectEach(list, deps, k, directMap, st) ==
    IF k > Len(deps) THEN st
    ELSE collectEach(list, deps, k + 1, directMap,
                     collectTransitive(list, deps[k], directMap, st))

\* the loop of GetDependencies over the direct dependencies that are items
RECURSIVE collectFromDirect(_, _, _, _, _)
collectFromDirect(list, deps, k, directMap, st) ==
    IF k > Len(deps) THEN st
    ELSE LET i == findTODOByID(list, deps[k])
         IN collectFromDirect(list, deps, k + 1, directMap,
                IF i = 0 THEN st
                ELSE collectEach(list, list[i].depends_on, 1, directMap, st))

\* result.Transitive of a transitive GetDependencies of the item
transitiveOf(list, item) ==
    collectFromDirect(list, item.depends_on, 1,
                      {d \in Range(item.depends_on) : findTODOByID(list, d) # 0},
                      [visited |-> {}, out |-> <<>>]).out

GetDependenciesBody(list, id, transitive) ==
    LET i == findTODOByID(list, id)
    IN IF i = 0 THEN Fail("NotFound", list, <<>>)
       ELSE Answer(list,
                   [Direct |-> InfosOf(list, list[i].depends_on),
                    Transitive |-> IF transitive THEN transitiveOf(list, list[i])
                                   ELSE <<>>,
                    DirectCount |-> Len(list[i].depends_on)])

----------------------------------------------------------------------------
(* Spec, SpecGraph: one action per Service method                         *)

\* a call: the method and its arguments
AddTODOCall(id, title, assignee, dependsOn) ==
    [op |-> "AddTODO",
     args |-> [id |-> id, title |-> title, assignee |-> assignee,
               dependsOn |-> dependsOn]]
UpdateStatusCall(id, status) ==
    [op |-> "UpdateStatus", args |-> [id |-> id, status |-> status]]
UpdateStatusWithAgentCall(id, status, agentName) ==
    [op |-> "UpdateStatusWithAgent",
     args |-> [id |-> id, status |-> status, agentName |-> agentName]]
UpdateAssigneeCall(id, assignee) ==
    [op |-> "UpdateAssignee", args |-> [id |-> id, assignee |-> assignee]]
RemoveTODOCall(id) == [op |-> "RemoveTODO", args |-> [id |-> id]]
AddDependencyCall(todoID, dependsOnID) ==
    [op |-> "AddDependency",
     args |-> [todoID |-> todoID, dependsOnID |-> dependsOnID]]
RemoveDependencyCall(todoID, dependsOnID) ==
    [op |-> "RemoveDependency",
     args |-> [todoID |-> todoID, dependsOnID |-> dependsOnID]]

ListTODOsCall == [op |-> "ListTODOs", args |-> <<>>]
GetStatusCall == [op |-> "GetStatus", args |-> <<>>]
GetReadyTODOsCall == [op |-> "GetReadyTODOs", args |-> <<>>]
GetBlockedTODOsCall == [op |-> "GetBlockedTODOs", args |-> <<>>]
GetDependenciesCall(id, transitive) ==
    [op |-> "GetDependencies", args |-> [id |-> id, transitive |-> transitive]]

\* the checks a method makes before it calls WithLock: the error kind, "ok"
\* for none
PreLock(c) ==
    CASE c.op = "AddTODO" ->
            IF c.args.id = "" THEN "ValidationError"
            ELSE IF c.args.title = "" THEN "ValidationError" ELSE "ok"
      [] c.op = "UpdateStatus" ->
            IF c.args.status \notin ValidStatuses THEN "ValidationError" ELSE "ok"
      [] c.op = "UpdateStatusWithAgent" ->
            IF c.args.agentName = "" THEN "ValidationError"
            ELSE IF c.args.status \notin ValidStatuses THEN "ValidationError"
            ELSE "ok"
      [] c.op = "AddDependency" ->
            IF c.args.todoID = c.args.dependsOnID THEN "ValidationError" ELSE "ok"
      [] OTHER -> "ok"

\* the closure a method passes to WithLock, applied to the loaded list
Body(c, list) ==
    CASE c.op = "AddTODO" ->
            AddTODOBody(list, c.args.id, c.args.title, c.args.assignee,
                        c.args.dependsOn)
      [] c.op = "UpdateStatus" -> UpdateStatusBody(list, c.args.id, c.args.status)
      [] c.op = "UpdateStatusWithAgent" ->
            UpdateStatusWithAgentBody(list, c.args.id, c.args.status,
                                      c.args.agentName)
      [] c.op = "UpdateAssignee" ->
            UpdateAssigneeBody(list, c.args.id, c.args.assignee)
      [] c.op = "RemoveTODO" -> RemoveTODOBody(list, c.args.id)
      [] c.op = "AddDependency" ->
            AddDependencyBody(list, c.args.todoID, c.args.dependsOnID)
      [] c.op = "RemoveDependency" ->
            RemoveDependencyBody(list, c.args.todoID, c.args.dependsOnID)
      [] c.op = "ListTODOs" -> ListTODOsBody(list)
      [] c.op = "GetStatus" -> GetStatusBody(list)
      [] c.op = "GetReadyTODOs" -> GetReadyTODOsBody(list)
      [] c.op = "GetBlockedTODOs" -> GetBlockedTODOsBody(list)
      [] c.op = "GetDependencies" ->
            GetDependenciesBody(list, c.args.id, c.args.transitive)

\* the service is idle, or a call has returned and `last` holds what it was,
\* the file it found and what it gave
Idle == [op |-> "none"]
Returned(c, fault, res, out) ==
    [op |-> c.op, args |-> c.args, fault |-> fault, pre |-> file, res |-> res,
     out |-> out]

\* one whole call: the checks before the lock, WithLock, Load, the closure
\* and its Save
Call(c, fault) ==
    /\ last = Idle
    /\ UNCHANGED fsVars
    /\ IF PreLock(c) # "ok"
       THEN /\ fault = "none"
            /\ last' = Returned(c, fault, PreLock(c), <<>>)
            /\ UNCHANGED file
       ELSE IF fault = "lock"
       THEN /\ last' = Returned(c, fault, "LockTimeout", <<>>)
            /\ UNCHANGED file
       ELSE IF fault = "load" \/ Load(file).err # "ok"
       THEN /\ last' = Returned(c, fault, "LoadError", <<>>)
            /\ UNCHANGED file
       ELSE LET b == Body(c, Load(file).list)
            IN IF ~b.save
               THEN /\ fault = "none"
                    /\ last' = Returned(c, fault, b.err, b.out)
                    /\ UNCHANGED file
               ELSE IF fault = "save"
               THEN /\ last' = Returned(c, fault, "SaveError", <<>>)
                    /\ UNCHANGED file
               ELSE /\ fault = "none"
                    /\ last' = Returned(c, fault, b.err, b.out)
                    /\ file' = JSONFile(b.list)

AddTODO(id, title, assignee, dependsOn, fault) ==
    Call(AddTODOCall(id, title, assignee, dependsOn), fault)

UpdateStatus(id, status, fault) == Call(UpdateStatusCall(id, status), fault)

UpdateStatusWithAgent(id, status, agentName, fault) ==
    Call(UpdateStatusWithAgentCall(id, status, agentName), fault)

UpdateAssignee(id, assignee, fault) == Call(UpdateAssigneeCall(id, assignee), fault)

RemoveTODO(id, fault) == Call(RemoveTODOCall(id), fault)

AddDependency(todoID, dependsOnID, fault) ==
    Call(AddDependencyCall(todoID, dependsOnID), fault)

RemoveDependency(todoID, dependsOnID, fault) ==
    Call(RemoveDependencyCall(todoID, dependsOnID), fault)

ListTODOs(fault) == Call(ListTODOsCall, fault)

GetStatus(fault) == Call(GetStatusCall, fault)

GetReadyTODOs(fault) == Call(GetReadyTODOsCall, fault)

GetBlockedTODOs(fault) == Call(GetBlockedTODOsCall, fault)

GetDependencies(id, transitive, fault) ==
    Call(GetDependenciesCall(id, transitive), fault)

\* the caller has its answer; the service takes the next call
Return ==
    /\ last # Idle
    /\ last' = Idle
    /\ UNCHANGED <<file, fsVars>>

----------------------------------------------------------------------------
(* SpecRestricted: the tool handlers in front of the Service. A handler is *)
(* built for one mode, adminMode, read once when the server starts; the    *)
(* service is set before any handler runs                                  *)

ToolCall(tool, input) == [op |-> tool, args |-> input]

\* the handler returns by itself, without calling the Service
HandlerReturns(tool, input, res) ==
    /\ last = Idle
    /\ last' = Returned(ToolCall(tool, input), "none", res, <<>>)
    /\ UNCHANGED <<file, fsVars>>

NewAddTODOHandler(adminMode, id, title, assignee, dependsOn, fault) ==
    IF ~adminMode
    THEN /\ fault = "none"
         /\ HandlerReturns("add_todo", AddTODOCall(id, title, assignee, dependsOn).args,
                           "AdminModeRequired")
    ELSE IF id = ""
    THEN /\ fault = "none"
         /\ HandlerReturns("add_todo", AddTODOCall(id, title, assignee, dependsOn).args,
                           "ValidationError")
    ELSE AddTODO(id, title, assignee, dependsOn, fault)

NewUpdateTODOStatusHandler(adminMode, id, status, agentName, fault) ==
    IF adminMode THEN UpdateStatus(id, status, fault)
    ELSE IF agentName = ""
    THEN /\ fault = "none"
         /\ HandlerReturns("update_todo_status",
                           UpdateStatusWithAgentCall(id, status, agentName).args,
                           "ValidationError")
    ELSE UpdateStatusWithAgent(id, status, agentName, fault)

NewUpdateTODOAssigneeHandler(adminMode, id, assignee, fault) ==
    IF ~adminMode
    THEN /\ fault = "none"
         /\ HandlerReturns("update_todo_assignee", UpdateAssigneeCall(id, assignee).args,
                           "AdminModeRequired")
    ELSE UpdateAssignee(id, assignee, fault)

\* as NewRemoveTODOHandler, without the test of the mode
NewRemoveTODOHandlerOpen(adminMode, id, fault) == RemoveTODO(id, fault)

NewRemoveTODOHandler(adminMode, id, fault) ==
    IF ~adminMode
    THEN /\ fault = "none"
         /\ HandlerReturns("remove_todo", RemoveTODOCall(id).args, "AdminModeRequired")
    ELSE RemoveTODO(id, fault)

NewAddTODODependencyHandler(adminMode, id, dependsOn, fault) ==
    IF ~adminMode
    THEN /\ fault = "none"
         /\ HandlerReturns("add_todo_dependency", AddDependencyCall(id, dependsOn).args,
                           "AdminModeRequired")
    ELSE AddDependency(id, dependsOn, fault)

NewRemoveTODODependencyHandler(adminMode, id, dependsOn, fault) ==
    IF ~adminMode
    THEN /\ fault = "none"
         /\ HandlerReturns("remove_todo_dependency",
                           RemoveDependencyCall(id, dependsOn).args, "AdminModeRequired")
    ELSE RemoveDependency(id, dependsOn, fault)

----------------------------------------------------------------------------
(* SpecFS: todo/storage.go step by step                                    *)

\* FileStorage.Load called on its own, outside WithLock
LoadCall == [op |-> "Load", args |-> <<>>]

\* the calls the processes make: t1 is the task added alone, t2 the one
\* that may be added depending on it
FSCalls ==
    {AddTODOCall("t1", "A", "", <<>>), AddTODOCall("t2", "A", "", <<>>),
     AddTODOCall("t2", "A", "", <<"t1">>),
     UpdateStatusCall("t1", "done"), UpdateStatusCall("t2", "done"),
     RemoveTODOCall("t1"),
     AddDependencyCall("t1", "t2"), AddDependencyCall("t2", "t1"),
     AddDependencyCall("t1", "t1"),
     LoadCall}

\* a process is inside the closure it passed to WithLock
InBody == {"locked", "loaded", "save", "writing", "rename"}

Goto(p, where) == pc' = [pc EXCEPT ![p] = where]

\* as flockGranted, with the result of the attempt ignored
flockGrantedAlways(p) == TRUE

\* as flockGranted, with a lock that only excludes the process itself
flockGrantedPerProcess(p) == lock # p

\* as flockGranted, with a lock that never refuses the first process
flockGrantedToFirst(p) == lock = NoProc \/ p = "p1"

\* flock's non-blocking exclusive lock: granted iff no one holds it
flockGranted(p) == lock = NoProc

\* a Service method starts: the checks before WithLock
Begin(p, c) ==
    /\ pc[p] = "idle"
    /\ call' = [call EXCEPT ![p] = c]
    /\ tries' = [tries EXCEPT ![p] = 0]
    /\ IF c = LoadCall
       THEN /\ Goto(p, "stat")
            /\ UNCHANGED ret
       ELSE IF PreLock(c) # "ok"
       THEN /\ Goto(p, "done")
            /\ ret' = [ret EXCEPT ![p] = PreLock(c)]
       ELSE /\ Goto(p, "acquire")
            /\ UNCHANGED ret
    /\ UNCHANGED <<svcVars, temp, lock, mem>>

\* as TryLock, running the closure once the attempts are used up
TryLockThenRun(p) ==
    /\ pc[p] = "acquire"
    /\ IF flockGranted(p)
       THEN /\ lock' = p
            /\ Goto(p, "locked")
            /\ UNCHANGED tries
       ELSE /\ tries' = [tries EXCEPT ![p] = @ + 1]
            /\ IF tries[p] + 1 >= MaxTries
               THEN Goto(p, "locked")
               ELSE UNCHANGED pc
            /\ UNCHANGED lock
    /\ UNCHANGED <<svcVars, temp, call, mem, ret>>

\* as TryLock, with a context that never expires: a failed attempt is
\* followed by another, whatever their number
TryLockNoDeadline(p) ==
    /\ pc[p] = "acquire"
    /\ IF flockGranted(p)
       THEN /\ lock' = p
            /\ Goto(p, "locked")
       ELSE UNCHANGED <<lock, pc>>
    /\ UNCHANGED <<svcVars, temp, call, mem, tries, ret>>

\* WithLock: one attempt of TryLockContext; after the last one the context
\* has expired and WithLock returns its error without running the closure
TryLock(p) ==
    /\ pc[p] = "acquire"
    /\ IF flockGranted(p)
       THEN /\ lock' = p
            /\ Goto(p, "locked")
            /\ UNCHANGED <<tries, ret>>
       ELSE /\ tries' = [tries EXCEPT ![p] = @ + 1]
            /\ IF tries[p] + 1 >= MaxTries
               THEN /\ Goto(p, "done")
                    /\ ret' = [ret EXCEPT ![p] = "LockTimeout"]
               ELSE /\ UNCHANGED <<pc, ret>>
            /\ UNCHANGED lock
    /\ UNCHANGED <<svcVars, temp, call, mem>>

\* the closure's Load; ioOK: os.ReadFile succeeds
LoadStep(p, ioOK) ==
    /\ pc[p] = "locked"
    /\ IF ioOK /\ Load(file).err = "ok"
       THEN /\ mem' = [mem EXCEPT ![p] = Load(file).list]
            /\ Goto(p, "loaded")
            /\ UNCHANGED ret
       ELSE /\ ret' = [ret EXCEPT ![p] = "LoadError"]
            /\ Goto(p, "unlock")
            /\ UNCHANGED mem
    /\ UNCHANGED <<svcVars, temp, lock, call, tries>>

\* as BodyStep, with storage.Save called at the end of every closure
BodyStepSaveAlways(p) ==
    /\ pc[p] = "loaded"
    /\ mem' = [mem EXCEPT ![p] = Body(call[p], mem[p]).list]
    /\ Goto(p, "save")
    /\ UNCHANGED <<svcVars, temp, lock, call, tries, ret>>

\* the closure between Load and Save: validation and the change in memory
BodyStep(p) ==
    /\ pc[p] = "loaded"
    /\ LET b == Body(call[p], mem[p])
       IN IF ~b.save
          THEN /\ ret' = [ret EXCEPT ![p] = b.err]
               /\ Goto(p, "unlock")
               /\ UNCHANGED mem
          ELSE /\ mem' = [mem EXCEPT ![p] = b.list]
               /\ Goto(p, "save")
               /\ UNCHANGED ret
    /\ UNCHANGED <<svcVars, temp, lock, call, tries>>

\* as SaveTarget, writing the backing file in place
SaveTargetInPlace == "file"

\* the path os.WriteFile writes the marshalled list to
SaveTarget == "temp"

WriteTo(target, content) ==
    IF target = "temp"
    THEN /\ temp' = content
         /\ UNCHANGED file
    ELSE /\ file' = content
         /\ UNCHANGED temp

\* Save: MkdirAll, MarshalIndent, and os.WriteFile creating or truncating
\* the temporary file; ok: none of them fails
SaveCreate(p, ok) ==
    /\ pc[p] = "save"
    /\ IF ok
       THEN /\ WriteTo(SaveTarget, EmptyFile)
            /\ Goto(p, "writing")
            /\ UNCHANGED ret
       ELSE /\ ret' = [ret EXCEPT ![p] = "SaveError"]
            /\ Goto(p, "unlock")
            /\ UNCHANGED <<file, temp>>
    /\ UNCHANGED <<last, lock, call, mem, tries>>

\* Save: os.WriteFile writing; ok: all the bytes get written, otherwise only
\* the first ones and Save returns the error, leaving the temporary file
SaveWrite(p, ok) ==
    /\ pc[p] = "writing"
    /\ IF ok
       THEN /\ WriteTo(SaveTarget, JSONFile(mem[p]))
            /\ Goto(p, "rename")
            /\ UNCHANGED ret
       ELSE /\ WriteTo(SaveTarget, TornFile)
            /\ ret' = [ret EXCEPT ![p] = "SaveError"]
            /\ Goto(p, "unlock")
    /\ UNCHANGED <<last, lock, call, mem, tries>>

\* as SaveRename, without the os.Remove of the temporary file when os.Rename
\* fails
SaveRenameKeepTemp(p, ok) ==
    /\ pc[p] = "rename"
    /\ IF ok
       THEN /\ file' = temp
            /\ temp' = NoFile
            /\ ret' = [ret EXCEPT ![p] = "ok"]
       ELSE /\ ret' = [ret EXCEPT ![p] = "SaveError"]
            /\ UNCHANGED <<file, temp>>
    /\ Goto(p, "unlock")
    /\ UNCHANGED <<last, lock, call, mem, tries>>

\* Save: os.Rename of the temporary file over the backing file; ok: it
\* succeeds, otherwise the temporary file is removed
SaveRename(p, ok) ==
    /\ pc[p] = "rename"
    /\ IF ok
       THEN /\ file' = temp
            /\ temp' = NoFile
            /\ ret' = [ret EXCEPT ![p] = "ok"]
       ELSE /\ temp' = NoFile
            /\ ret' = [ret EXCEPT ![p] = "SaveError"]
            /\ UNCHANGED file
    /\ Goto(p, "unlock")
    /\ UNCHANGED <<last, lock, call, mem, tries>>

\* as Unlock, releasing the lock only when the closure returned no error
UnlockOnSuccess(p) ==
    /\ pc[p] = "unlock"
    /\ lock' = IF ret[p] = "ok" THEN NoProc ELSE lock
    /\ mem' = [mem EXCEPT ![p] = <<>>]
    /\ Goto(p, "done")
    /\ UNCHANGED <<svcVars, temp, call, tries, ret>>

\* WithLock's deferred Unlock, and its return to the method
Unlock(p) ==
    /\ pc[p] = "unlock"
    /\ lock' = NoProc
    /\ mem' = [mem EXCEPT ![p] = <<>>]
    /\ Goto(p, "done")
    /\ UNCHANGED <<svcVars, temp, call, tries, ret>>

\* the method has returned; the process is free for its next call
Done(p) ==
    /\ pc[p] = "done"
    /\ Goto(p, "idle")
    /\ call' = [call EXCEPT ![p] = NoCall]
    /\ ret' = [ret EXCEPT ![p] = "none"]
    /\ tries' = [tries EXCEPT ![p] = 0]
    /\ mem' = [mem EXCEPT ![p] = <<>>]
    /\ UNCHANGED <<svcVars, temp, lock>>

\* Load outside WithLock: os.Stat; no file gives the empty list at once
ReaderStat(p) ==
    /\ pc[p] = "stat"
    /\ IF file.kind = "absent"
       THEN /\ Goto(p, "done")
            /\ ret' = [ret EXCEPT ![p] = "ok"]
       ELSE /\ Goto(p, "read")
            /\ UNCHANGED ret
    /\ UNCHANGED <<svcVars, temp, lock, call, mem, tries>>

\* Load outside WithLock: os.ReadFile and json.Unmarshal of what the backing
\* file holds then
ReaderRead(p) ==
    /\ pc[p] = "read"
    /\ ret' = [ret EXCEPT ![p] = Load(file).err]
    /\ mem' = [mem EXCEPT ![p] = Load(file).list]
    /\ Goto(p, "done")
    /\ UNCHANGED <<svcVars, temp, lock, call, tries>>

----------------------------------------------------------------------------

Init ==
    /\ file = NoFile
    /\ last = Idle
    /\ temp = NoFile
    /\ lock = NoProc
    /\ pc = [p \in Procs |-> "idle"]
    /\ call = [p \in Procs |-> NoCall]
    /\ mem = [p \in Procs |-> <<>>]
    /\ tries = [p \in Procs |-> 0]
    /\ ret = [p \in Procs |-> "none"]

Next ==
    \/ \E id \in IDInputs, title \in TitleInputs, assignee \in AssigneeInputs,
          dependsOn \in DepsInputs, fault \in Faults :
            AddTODO(id, title, assignee, dependsOn, fault)
    \/ \E id \in IDs, status \in StatusInputs, fault \in Faults :
            UpdateStatus(id, status, fault)
    \/ \E id \in IDs, status \in StatusInputs, agentName \in AgentInputs,
          fault \in Faults :
            UpdateStatusWithAgent(id, status, agentName, fault)
    \/ \E id \in IDs, assignee \in AssigneeInputs, fault \in Faults :
            UpdateAssignee(id, assignee, fault)
    \/ \E id \in IDs, fault \in Faults : RemoveTODO(id, fault)
    \/ \E todoID \in IDs, dependsOnID \in IDs, fault \in Faults :
            AddDependency(todoID, dependsOnID, fault)
    \/ \E todoID \in IDs, dependsOnID \in IDs, fault \in Faults :
            RemoveDependency(todoID, dependsOnID, fault)
    \/ \E fault \in Faults : ListTODOs(fault)
    \/ \E fault \in Faults : GetStatus(fault)
    \/ \E fault \in Faults : GetReadyTODOs(fault)
    \/ \E fault \in Faults : GetBlockedTODOs(fault)
    \/ \E id \in IDs, transitive \in BOOLEAN, fault \in Faults :
            GetDependencies(id, transitive, fault)
    \/ Return

Spec == Init /\ [][Next]_vars

NextGraph ==
    \/ \E id \in GraphIDs, dependsOn \in GraphDepsInputs :
            AddTODO(id, "A", "", dependsOn, "none")
    \/ \E id \in GraphIDs, status \in StatusInputs :
            UpdateStatus(id, status, "none")
    \/ \E id \in GraphIDs, status \in ValidStatuses :
            UpdateStatusWithAgent(id, status, "a1", "none")
    \/ \E id \in GraphIDs : UpdateAssignee(id, "", "none")
    \/ \E id \in GraphIDs : RemoveTODO(id, "none")
    \/ \E todoID \in GraphIDs, dependsOnID \in GraphIDs :
            AddDependency(todoID, dependsOnID, "none")
    \/ \E todoID \in GraphIDs, dependsOnID \in GraphIDs :
            RemoveDependency(todoID, dependsOnID, "none")
    \/ ListTODOs("none")
    \/ GetStatus("none")
    \/ GetReadyTODOs("none")
    \/ GetBlockedTODOs("none")
    \/ \E id \in GraphIDs, transitive \in BOOLEAN :
            GetDependencies(id, transitive, "none")
    \/ Return

SpecGraph == Init /\ [][NextGraph]_vars

\* the lists a server in restricted mode may find in the file when it
\* starts, written by a server in the other mode: nothing, t1, or t1 and
\* t2, with t2 depending on t1 or not
RestrictedStartLists ==
    LET t1s == {TODOItem("t1", "A", s, a, <<>>) : s \in ValidStatuses, a \in AssigneeInputs}
        t2s == {TODOItem("t2", "A", s, a, d) :
                   s \in ValidStatuses, a \in AssigneeInputs, d \in {<<>>, <<"t1">>}}
    IN {<<>>} \cup {<<x>> : x \in t1s} \cup {<<x, y>> : x \in t1s, y \in t2s}

InitRestricted ==
    /\ file \in {NoFile} \cup {JSONFile(l) : l \in RestrictedStartLists}
    /\ last = Idle
    /\ temp = NoFile
    /\ lock = NoProc
    /\ pc = [p \in Procs |-> "idle"]
    /\ call = [p \in Procs |-> NoCall]
    /\ mem = [p \in Procs |-> <<>>]
    /\ tries = [p \in Procs |-> 0]
    /\ ret = [p \in Procs |-> "none"]

NextRestricted ==
    \/ \E id \in IDInputs, title \in TitleInputs, assignee \in AssigneeInputs,
          dependsOn \in DepsInputs :
            NewAddTODOHandler(FALSE, id, title, assignee, dependsOn, "none")
    \/ \E id \in IDs, status \in StatusInputs, agentName \in AgentInputs,
          fault \in Faults :
            NewUpdateTODOStatusHandler(FALSE, id, status, agentName, fault)
    \/ \E id \in IDs, assignee \in AssigneeInputs :
            NewUpdateTODOAssigneeHandler(FALSE, id, assignee, "none")
    \/ \E id \in IDs : NewRemoveTODOHandler(FALSE, id, "none")
    \/ \E id \in IDs, dependsOn \in IDs :
            NewAddTODODependencyHandler(FALSE, id, dependsOn, "none")
    \/ \E id \in IDs, dependsOn \in IDs :
            NewRemoveTODODependencyHandler(FALSE, id, dependsOn, "none")
    \/ Return

SpecRestricted == InitRestricted /\ [][NextRestricted]_vars

\* SpecDeps: GetDependencies on the graphs of four tasks, each depending on
\* tasks added before it, which AddTODO and AddDependency build
DepsIDs == {"t1", "t2", "t3", "t4"}

\* the sequences without repetition over a set of ids
Orderings(S) ==
    {s \in SeqsUpTo(S, Cardinality(S)) : \A i, j \in 1..Len(s) : s[i] = s[j] => i = j}

DepsLists ==
    {<<TODOItem("t1", "A", s1, "", <<>>), TODOItem("t2", "A", "pending", "", d2),
       TODOItem("t3", "A", "pending", "", d3), TODOItem("t4", "A", "pending", "", d4)>> :
        s1 \in {"pending", "done"}, d2 \in Orderings({"t1"}),
        d3 \in Orderings({"t1", "t2"}), d4 \in Orderings({"t1", "t2", "t3"})}

InitDeps ==
    /\ file \in {JSONFile(l) : l \in DepsLists}
    /\ last = Idle
    /\ temp = NoFile
    /\ lock = NoProc
    /\ pc = [p \in Procs |-> "idle"]
    /\ call = [p \in Procs |-> NoCall]
    /\ mem = [p \in Procs |-> <<>>]
    /\ tries = [p \in Procs |-> 0]
    /\ ret = [p \in Procs |-> "none"]

NextDeps ==
    \/ \E id \in DepsIDs \cup {"t5"}, transitive \in BOOLEAN :
            GetDependencies(id, transitive, "none")
    \/ Return

SpecDeps == InitDeps /\ [][NextDeps]_vars

\* SpecCycle: AddDependency and RemoveDependency on the same graphs of four
\* tasks and on those they lead to
NextCycle ==
    \/ \E todoID \in DepsIDs \cup {"t5"}, dependsOnID \in DepsIDs \cup {"t5"} :
            AddDependency(todoID, dependsOnID, "none")
    \/ \E todoID \in DepsIDs, dependsOnID \in DepsIDs :
            RemoveDependency(todoID, dependsOnID, "none")
    \/ Return

SpecCycle == InitDeps /\ [][NextCycle]_vars

\* SpecSummary: GetStatus on the lists of up to three tasks without
\* dependencies, of any status and assignee
SummaryLists ==
    LET items(id) == {TODOItem(id, "A", s, a, <<>>) : s \in ValidStatuses, a \in AgentInputs}
    IN {<<>>} \cup {<<x>> : x \in items("t1")}
       \cup {<<x, y>> : x \in items("t1"), y \in items("t2")}
       \cup {<<x, y, z>> : x \in items("t1"), y \in items("t2"), z \in items("t3")}

InitSummary ==
    /\ file \in {NoFile} \cup {JSONFile(l) : l \in SummaryLists}
    /\ last = Idle
    /\ temp = NoFile
    /\ lock = NoProc
    /\ pc = [p \in Procs |-> "idle"]
    /\ call = [p \in Procs |-> NoCall]
    /\ mem = [p \in Procs |-> <<>>]
    /\ tries = [p \in Procs |-> 0]
    /\ ret = [p \in Procs |-> "none"]

NextSummary ==
    \/ GetStatus("none")
    \/ Return

SpecSummary == InitSummary /\ [][NextSummary]_vars

\* SpecLoad: the service started on a file it did not write: none, a
\* zero-length one, one that is not JSON, or a document of up to two tasks
\* whose objects have the depends_on key or not
StoredObjects(id, deps) ==
    {[id |-> id, title |-> "A", status |-> s, assignee |-> ""] :
        s \in ValidStatuses}
    \cup {[id |-> id, title |-> "A", status |-> s, assignee |-> "",
           depends_on |-> d] : s \in ValidStatuses, d \in deps}

StoredFiles ==
    {NoFile, EmptyFile, TornFile}
    \cup {[kind |-> "json", items |-> doc] :
            doc \in {<<>>} \cup {<<x>> : x \in StoredObjects("t1", {<<>>})}
                    \cup {<<x, y>> : x \in StoredObjects("t1", {<<>>}),
                                     y \in StoredObjects("t2", {<<>>, <<"t1">>})}}

InitLoad ==
    /\ file \in StoredFiles
    /\ last = Idle
    /\ temp = NoFile
    /\ lock = NoProc
    /\ pc = [p \in Procs |-> "idle"]
    /\ call = [p \in Procs |-> NoCall]
    /\ mem = [p \in Procs |-> <<>>]
    /\ tries = [p \in Procs |-> 0]
    /\ ret = [p \in Procs |-> "none"]

NextLoad ==
    \/ ListTODOs("none")
    \/ GetReadyTODOs("none")
    \/ \E id \in IDs, status \in ValidStatuses : UpdateStatus(id, status, "none")
    \/ \E id \in IDs : AddTODO(id, "A", "", <<>>, "none")
    \/ Return

SpecLoad == InitLoad /\ [][NextLoad]_vars

\* SpecDangling: the service started on a file edited by hand, in which t2
\* depends on up to two of t1, which may or may not be in the list, and t9,
\* which is not
DanglingLists ==
    LET second == {TODOItem("t2", "A", s, "", d) :
                      s \in ValidStatuses, d \in SeqsUpTo({"t1", "t9"}, MaxDepsArg)}
        first == {TODOItem("t1", "A", s, "", <<>>) : s \in ValidStatuses}
    IN {<<y>> : y \in second} \cup {<<x, y>> : x \in first, y \in second}

InitDangling ==
    /\ file \in {JSONFile(l) : l \in DanglingLists}
    /\ last = Idle
    /\ temp = NoFile
    /\ lock = NoProc
    /\ pc = [p \in Procs |-> "idle"]
    /\ call = [p \in Procs |-> NoCall]
    /\ mem = [p \in Procs |-> <<>>]
    /\ tries = [p \in Procs |-> 0]
    /\ ret = [p \in Procs |-> "none"]

NextDangling ==
    \/ \E id \in IDs, status \in ValidStatuses : UpdateStatus(id, status, "none")
    \/ GetReadyTODOs("none")
    \/ GetBlockedTODOs("none")
    \/ Return

SpecDangling == InitDangling /\ [][NextDangling]_vars

----------------------------------------------------------------------------
(* SpecTool: the get_todo_status handler, which calls the Service three    *)
(* times, each call under its own WithLock, while other callers' calls     *)
(* take the lock in between. pc[p] is the handler's position, mem[p] its   *)
(* local variables, ret[p] what it returns                                 *)

\* what a query of the Service returns on the file as it is: the error kind
\* and the result; a fault stands for a lock not acquired in time or a read
\* that fails
Query(c, fault) ==
    IF fault = "lock" THEN [err |-> "LockTimeout", out |-> <<>>]
    ELSE IF fault = "load" \/ Load(file).err # "ok"
    THEN [err |-> "LoadError", out |-> <<>>]
    ELSE [err |-> Body(c, Load(file).list).err,
          out |-> Body(c, Load(file).list).out]

\* the handler starts and calls GetStatus, whose error it returns
GetTODOStatusSummary(p, fault) ==
    /\ pc[p] = "idle"
    /\ call' = [call EXCEPT ![p] = ToolCall("get_todo_status", <<>>)]
    /\ LET q == Query(GetStatusCall, fault)
       IN IF q.err # "ok"
          THEN /\ ret' = [ret EXCEPT ![p] = [err |-> q.err, out |-> <<>>]]
               /\ Goto(p, "done")
               /\ UNCHANGED mem
          ELSE /\ mem' = [mem EXCEPT ![p] = [summary |-> q.out]]
               /\ Goto(p, "summary")
               /\ UNCHANGED ret
    /\ UNCHANGED <<svcVars, temp, lock, tries>>

\* it calls GetReadyTODOs and drops the error; readyErr keeps what it drops
GetTODOStatusReady(p, fault) ==
    /\ pc[p] = "summary"
    /\ LET q == Query(GetReadyTODOsCall, fault)
       IN mem' = [mem EXCEPT ![p] = [summary |-> mem[p].summary,
                                     readyItems |-> q.out, readyErr |-> q.err]]
    /\ Goto(p, "ready")
    /\ UNCHANGED <<svcVars, temp, lock, call, tries, ret>>

\* it calls GetBlockedTODOs, drops the error, and builds its output
GetTODOStatusBlocked(p, fault) ==
    /\ pc[p] = "ready"
    /\ LET q == Query(GetBlockedTODOsCall, fault)
       IN /\ ret' = [ret EXCEPT ![p] =
                        [err |-> "ok",
                         out |-> [Total |-> mem[p].summary.Total,
                                  Pending |-> mem[p].summary.Pending,
                                  InProgress |-> mem[p].summary.InProgress,
                                  Done |-> mem[p].summary.Done,
                                  Blocked |-> Len(q.out),
                                  Ready |-> Len(mem[p].readyItems),
                                  ByAssignee |-> mem[p].summary.ByAssignee]]]
          /\ mem' = [mem EXCEPT ![p] = [readyErr |-> mem[p].readyErr,
                                        blockedErr |-> q.err]]
    /\ Goto(p, "done")
    /\ UNCHANGED <<svcVars, temp, lock, call, tries>>

\* the handler has returned
GetTODOStatusReturn(p) ==
    /\ pc[p] = "done"
    /\ call[p] = ToolCall("get_todo_status", <<>>)
    /\ Goto(p, "idle")
    /\ call' = [call EXCEPT ![p] = NoCall]
    /\ ret' = [ret EXCEPT ![p] = "none"]
    /\ mem' = [mem EXCEPT ![p] = <<>>]
    /\ UNCHANGED <<svcVars, temp, lock, tries>>

\* the process that serves get_todo_status, and the faults of a query
ToolProc == "p1"
QueryFaults == {"none", "lock", "load"}

NextTool ==
    \/ \E fault \in QueryFaults : GetTODOStatusSummary(ToolProc, fault)
    \/ \E fault \in QueryFaults : GetTODOStatusReady(ToolProc, fault)
    \/ \E fault \in QueryFaults : GetTODOStatusBlocked(ToolProc, fault)
    \/ GetTODOStatusReturn(ToolProc)
    \/ \E id \in IDs, dependsOn \in {<<>>, <<"t1">>} :
            AddTODO(id, "A", "", dependsOn, "none")
    \/ \E id \in IDs, status \in ValidStatuses : UpdateStatus(id, status, "none")
    \/ \E id \in IDs : RemoveTODO(id, "none")
    \/ Return

SpecTool == Init /\ [][NextTool]_vars

NextFS ==
    \/ \E p \in Procs, c \in FSCalls : Begin(p, c)
    \/ \E p \in Procs : TryLock(p)
    \/ \E p \in Procs, ioOK \in BOOLEAN : LoadStep(p, ioOK)
    \/ \E p \in Procs : BodyStep(p)
    \/ \E p \in Procs, ok \in BOOLEAN : SaveCreate(p, ok)
    \/ \E p \in Procs, ok \in BOOLEAN : SaveWrite(p, ok)
    \/ \E p \in Procs, ok \in BOOLEAN : SaveRename(p, ok)
    \/ \E p \in Procs : Unlock(p)
    \/ \E p \in Procs : Done(p)
    \/ \E p \in Procs : ReaderStat(p)
    \/ \E p \in Procs : ReaderRead(p)

SpecFS == Init /\ [][NextFS]_vars

\* SpecCalls: the steps of SpecFS for calls of every kind: mutations that
\* pass and that fail their validation before and after the lock, queries,
\* and the Load outside the service
CallsOfEveryKind ==
    {AddTODOCall("t1", "A", "", <<>>), AddTODOCall("t2", "A", "", <<"t1">>),
     AddTODOCall("t1", "", "", <<>>),
     UpdateStatusCall("t2", "done"), RemoveTODOCall("t1"),
     AddDependencyCall("t1", "t2"),
     ListTODOsCall, GetStatusCall, GetReadyTODOsCall, GetBlockedTODOsCall,
     GetDependenciesCall("t2", TRUE),
     LoadCall}

NextCalls ==
    \/ \E p \in Procs, c \in CallsOfEveryKind : Begin(p, c)
    \/ \E p \in Procs : TryLock(p)
    \/ \E p \in Procs, ioOK \in BOOLEAN : LoadStep(p, ioOK)
    \/ \E p \in Procs : BodyStep(p)
    \/ \E p \in Procs, ok \in BOOLEAN : SaveCreate(p, ok)
    \/ \E p \in Procs, ok \in BOOLEAN : SaveWrite(p, ok)
    \/ \E p \in Procs, ok \in BOOLEAN : SaveRename(p, ok)
    \/ \E p \in Procs : Unlock(p)
    \/ \E p \in Procs : Done(p)
    \/ \E p \in Procs : ReaderStat(p)
    \/ \E p \in Procs : ReaderRead(p)

SpecCalls == Init /\ [][NextCalls]_vars

\* SpecLive: the steps of SpecFS with one process that keeps running, its
\* goroutine scheduled and its system calls returning, beside one that may
\* stop anywhere, the lock in its hands included
LiveCalls ==
    {AddTODOCall("t1", "A", "", <<>>), UpdateStatusCall("t1", "done"),
     RemoveTODOCall("t1"), ListTODOsCall, LoadCall}

\* a step of the method the process is in, up to its return
Running(p) ==
    \/ TryLock(p)
    \/ \E ioOK \in BOOLEAN : LoadStep(p, ioOK)
    \/ BodyStep(p)
    \/ \E ok \in BOOLEAN : SaveCreate(p, ok)
    \/ \E ok \in BOOLEAN : SaveWrite(p, ok)
    \/ \E ok \in BOOLEAN : SaveRename(p, ok)
    \/ Unlock(p)
    \/ ReaderStat(p)
    \/ ReaderRead(p)

LiveProc == "p1"

NextLive ==
    \/ \E p \in Procs, c \in LiveCalls : Begin(p, c)
    \/ \E p \in Procs : Running(p)
    \/ \E p \in Procs : Done(p)

SpecLive == Init /\ [][NextLive]_vars /\ WF_vars(Running(LiveProc))

\* SpecRace: two processes, each making one call on a list of two tasks
\* without dependencies, with the file system working: the first adds the
\* edge from t1 to t2 or removes t1, the second adds the edge from t2 to t1
\* or a task t3 that depends on t1
RaceLists ==
    {<<TODOItem("t1", "A", s1, "", <<>>), TODOItem("t2", "A", s2, "", <<>>)>> :
        s1 \in ValidStatuses, s2 \in ValidStatuses}

RaceCalls(p) ==
    IF p = "p1"
    THEN {AddDependencyCall("t1", "t2"), RemoveTODOCall("t1")}
    ELSE {AddDependencyCall("t2", "t1"), AddTODOCall("t3", "A", "", <<"t1">>)}

InitRace ==
    /\ file \in {JSONFile(l) : l \in RaceLists}
    /\ last = Idle
    /\ temp = NoFile
    /\ lock = NoProc
    /\ pc = [p \in Procs |-> "idle"]
    /\ call = [p \in Procs |-> NoCall]
    /\ mem = [p \in Procs |-> <<>>]
    /\ tries = [p \in Procs |-> 0]
    /\ ret = [p \in Procs |-> "none"]

NextRace ==
    \/ \E p \in Procs : \E c \in RaceCalls(p) : Begin(p, c)
    \/ \E p \in Procs : TryLock(p)
    \/ \E p \in Procs : LoadStep(p, TRUE)
    \/ \E p \in Procs : BodyStep(p)
    \/ \E p \in Procs : SaveCreate(p, TRUE)
    \/ \E p \in Procs : SaveWrite(p, TRUE)
    \/ \E p \in Procs : SaveRename(p, TRUE)
    \/ \E p \in Procs : Unlock(p)

SpecRace == InitRace /\ [][NextRace]_vars

----------------------------------------------------------------------------
(* The properties checked *)

\* the persisted task list, and the one the last call found
Persisted == Load(file).list
Before == Load(last.pre).list

IdsOf(list) == {list[i].id : i \in 1..Len(list)}
ItemsWith(list, id) == {i \in 1..Len(list) : list[i].id = id}
DepsOf(list, id) == UNION {Range(list[i].depends_on) : i \in ItemsWith(list, id)}

\* the ids reachable from id along one or more depends_on edges
RECURSIVE Grow(_, _)
Grow(list, S) ==
    LET T == S \cup UNION {DepsOf(list, x) : x \in S}
    IN IF T = S THEN S ELSE Grow(list, T)
ReachableFrom(list, id) == Grow(list, DepsOf(list, id))

Acyclic(list) == \A id \in IdsOf(list) : id \notin ReachableFrom(list, id)

\* the last call was this method, and the storage did not fail it
Did(op) == last.op = op /\ last.fault = "none"

\* C1: the depends_on edges of the persisted list never form a cycle, not
\* even a self-loop, whatever calls succeeded or failed before
C1_Acyclic == Acyclic(Persisted)

\* a call that would have closed a cycle of three has just been refused
C1_Witness ==
    /\ last.op = "AddDependency"
    /\ last.res = "CircularDependency"
    /\ Len(Persisted) = 3
    /\ \E x \in IdsOf(Persisted) :
          /\ last.args.todoID \in DepsOf(Persisted, x)
          /\ x \in DepsOf(Persisted, last.args.dependsOnID)
          /\ x \notin {last.args.todoID, last.args.dependsOnID}

\* C2: AddDependency(fromID, toID) with fromID # toID, both present and
\* fromID reachable from toID fails with CircularDependency and leaves the
\* file as it was
C2_CycleRefused ==
    (/\ Did("AddDependency")
     /\ last.args.todoID # last.args.dependsOnID
     /\ {last.args.todoID, last.args.dependsOnID} \subseteq IdsOf(Before)
     /\ last.args.todoID \in ReachableFrom(Before, last.args.dependsOnID))
    => (last.res = "CircularDependency" /\ file = last.pre)

\* the refused edge would have closed a cycle through a third task, which
\* the target reaches only through that task
C2_Witness ==
    /\ Did("AddDependency")
    /\ last.res = "CircularDependency"
    /\ last.args.todoID \notin DepsOf(Before, last.args.dependsOnID)
    /\ last.args.todoID \in ReachableFrom(Before, last.args.dependsOnID)

\* C3: for a pending task with a dependency that is not done,
\* UpdateStatus to in_progress and to done fail with Blocked and leave the
\* file, so the task's status, as it was
HasUndoneDep(list, id) ==
    \E d \in DepsOf(list, id) : \E j \in ItemsWith(list, d) : list[j].status # "done"

C3_Gated ==
    (/\ Did("UpdateStatus")
     /\ last.args.status \in {"in_progress", "done"}
     /\ \E i \in ItemsWith(Before, last.args.id) : Before[i].status = "pending"
     /\ HasUndoneDep(Before, last.args.id))
    => (last.res = "Blocked" /\ file = last.pre)

\* blocked although one of the two dependencies is done
C3_Witness ==
    /\ Did("UpdateStatus")
    /\ last.res = "Blocked"
    /\ \E i \in ItemsWith(Before, last.args.id) :
          /\ Len(Before[i].depends_on) = 2
          /\ \E j \in ItemsWith(Before, Before[i].depends_on[1]) :
                Before[j].status = "done"

\* C6: every id in some task's depends_on is the id of a task in the list
C6_DepsExist ==
    \A id \in IdsOf(Persisted) : DepsOf(Persisted, id) \subseteq IdsOf(Persisted)

\* a task has just been removed from a list in which another task depends
\* on a third
C6_Witness ==
    /\ Did("RemoveTODO")
    /\ last.res = "ok"
    /\ \E id \in IdsOf(Persisted) : DepsOf(Persisted, id) # {}

\* C7: RemoveTODO(x) fails with Conflict naming every task that depends on
\* x, the file unchanged, when there is one; else it removes x when x is
\* present; else it fails with NotFound
DependentsOf(list, x) == {id \in IdsOf(list) : x \in DepsOf(list, id)}

C7_Remove ==
    Did("RemoveTODO") =>
        IF DependentsOf(Before, last.args.id) # {}
        THEN /\ last.res = "Conflict"
             /\ Range(last.out) = DependentsOf(Before, last.args.id)
             /\ file = last.pre
        ELSE IF last.args.id \in IdsOf(Before)
        THEN /\ last.res = "ok"
             /\ last.args.id \notin IdsOf(Persisted)
        ELSE /\ last.res = "NotFound"
             /\ file = last.pre

\* the removal refused names two dependents
C7_Witness ==
    /\ Did("RemoveTODO")
    /\ last.res = "Conflict"
    /\ Cardinality(DependentsOf(Before, last.args.id)) = 2

\* C8 as stated: the ids of the list are pairwise distinct, and AddTODO with
\* an id already present fails with Conflict and leaves the file as it was
Distinct(list) == \A i, j \in 1..Len(list) : list[i].id = list[j].id => i = j

C8_AsStated ==
    /\ Distinct(Persisted)
    /\ (Did("AddTODO") /\ last.args.id \in IdsOf(Before))
       => (last.res = "Conflict" /\ file = last.pre)

\* C8 as amended: the ids of the list are pairwise distinct, and AddTODO
\* with an id already present leaves the file as it was, failing with
\* Conflict when the title is not empty and with ValidationError, before the
\* list is read, when it is
C8_UniqueIds ==
    /\ Distinct(Persisted)
    /\ (Did("AddTODO") /\ last.args.id \in IdsOf(Before))
       => /\ file = last.pre
          /\ last.res = IF last.args.title = "" THEN "ValidationError"
                        ELSE "Conflict"

\* a second AddTODO of an id of a list of two, with a title, refused
C8_Witness ==
    /\ Did("AddTODO")
    /\ last.args.id \in IdsOf(Before)
    /\ last.args.title # ""
    /\ last.res = "Conflict"
    /\ Len(Persisted) = 2

\* C9: a call that returns an error, of the service or of the storage,
\* leaves the file as it was
ErrorKinds ==
    {"ValidationError", "NotFound", "Conflict", "CircularDependency", "Blocked",
     "PermissionDenied", "LockTimeout", "LoadError", "SaveError"}

C9_ErrorsChangeNothing ==
    last # Idle => /\ last.res \in ErrorKinds \cup {"ok"}
                   /\ last.res \in ErrorKinds => file = last.pre

\* a Save that failed after the closure had changed the list in memory
C9_Witness ==
    /\ last.op = "AddDependency"
    /\ last.res = "SaveError"
    /\ Len(Before) = 2
    /\ last.args.dependsOnID \notin DepsOf(Before, last.args.todoID)

\* C4: at most one process at a time is inside the closure it passed to
\* WithLock, and a process is inside it only while it holds the lock
C4_MutualExclusion ==
    /\ Cardinality({p \in Procs : pc[p] \in InBody}) <= 1
    /\ \A p \in Procs : pc[p] \in InBody => lock = p

\* one process is inside its closure while the other has tried the lock
\* and goes on trying
C4_Witness ==
    \E p, q \in Procs :
        /\ pc[p] = "loaded"
        /\ pc[q] = "acquire"
        /\ tries[q] >= 1

\* the calls that change the list
Mutations ==
    {"AddTODO", "UpdateStatus", "UpdateStatusWithAgent", "UpdateAssignee",
     "RemoveTODO", "AddDependency", "RemoveDependency"}

\* process p's call, applied in one piece to the list the file holds now,
\* succeeds and gives the list the file holds next
AppliesNow(p) ==
    /\ call[p].op \in Mutations
    /\ Load(file).err = "ok"
    /\ Body(call[p], Load(file).list).err = "ok"
    /\ file' = JSONFile(Body(call[p], Load(file).list).list)

\* C5: the states of the file are linearizable: the file changes only by
\* one process's call applied whole to the list the file held just before,
\* and every mutation that returns success is applied so, at the step that
\* makes it succeed; so no successful mutation is lost
C5_Linearizable ==
    [][/\ file' # file => \E p \in Procs : ret'[p] = "ok" /\ AppliesNow(p)
       /\ \A p \in Procs :
            (call[p].op \in Mutations /\ ret[p] # "ok" /\ ret'[p] = "ok")
            => AppliesNow(p)]_vars

\* two AddTODO calls with distinct ids have both succeeded, the second
\* after waiting for the lock, and both tasks are in the list
C5_Witness ==
    \E p, q \in Procs :
        /\ call[p].op = "AddTODO" /\ call[q].op = "AddTODO"
        /\ call[p].args.id # call[q].args.id
        /\ ret[p] = "ok" /\ ret[q] = "ok"
        /\ tries[q] >= 1
        /\ {call[p].args.id, call[q].args.id} \subseteq IdsOf(Persisted)

\* C10: a Load that takes no lock never reads a partly written document:
\* the backing file always holds nothing or a whole document, such a Load
\* returns a list and no error, and the backing file changes only at the
\* rename, to the whole document the saving process holds
C10_NoTornRead ==
    /\ [](/\ file.kind \in {"absent", "json"}
          /\ \A p \in Procs :
                (call[p] = LoadCall /\ pc[p] = "done") => ret[p] = "ok")
    /\ [][file' # file =>
            \E p \in Procs : /\ pc[p] = "rename" /\ pc'[p] = "unlock"
                             /\ file' = JSONFile(mem[p])]_vars

\* a Load without the lock has returned the list the file holds while
\* another process, in its Save, has the next list written to the temporary
\* file and not yet renamed
C10_Witness ==
    \E p, q \in Procs :
        /\ pc[p] = "rename"
        /\ temp = JSONFile(mem[p])
        /\ call[q] = LoadCall /\ pc[q] = "done" /\ ret[q] = "ok"
        /\ mem[q] = Persisted
        /\ mem[q] # mem[p]

\* a process is between WithLock's acquisition and its deferred Unlock
InWithLock == InBody \cup {"unlock"}

\* C11: once WithLock has returned, with the closure's success, the
\* closure's error or a failed acquisition, the caller does not hold the
\* lock, and the lock is held only by a process inside WithLock; so an
\* attempt on the lock fails only while another process is inside WithLock;
\* and WithLock returns the closure's error as the closure gave it
C11_LockHygiene ==
    /\ [](/\ \A p \in Procs : pc[p] \notin InWithLock => lock # p
          /\ lock # NoProc => pc[lock] \in InWithLock)
    /\ [][/\ \A p \in Procs :
                tries'[p] > tries[p]
                => \E q \in Procs \ {p} : pc[q] \in InWithLock
          /\ \A p \in Procs :
                (pc[p] = "unlock" /\ pc'[p] = "done")
                => (ret'[p] = ret[p] /\ lock' = NoProc)]_vars

\* one process's closure has returned NotFound and WithLock has returned it,
\* and the other process has then got the lock at its first attempt
C11_Witness ==
    \E p, q \in Procs :
        /\ pc[p] = "done" /\ ret[p] = "NotFound"
        /\ pc[q] = "locked" /\ tries[q] = 0

\* C12: a caller whose attempts on the lock are used up gets LockTimeout,
\* at the step of its last failed attempt, which leaves the file, the
\* temporary file, the lock and what it holds in memory alone; it went from
\* the start of its call through failed attempts only, so it has loaded
\* nothing and holds no lock; and after that return it does nothing but
\* become free for a call of its caller's choosing
C12_LockTimeout ==
    /\ [](\A p \in Procs :
            /\ pc[p] = "acquire" => (mem[p] = <<>> /\ lock # p /\ tries[p] < MaxTries)
            /\ ret[p] = "LockTimeout"
               => (pc[p] = "done" /\ mem[p] = <<>> /\ lock # p
                   /\ tries[p] = MaxTries))
    /\ [][\A p \in Procs :
            /\ pc[p] = "acquire" => pc'[p] \in {"acquire", "locked", "done"}
            /\ (pc[p] = "acquire" /\ tries'[p] >= MaxTries)
               => (pc'[p] = "done" /\ ret'[p] = "LockTimeout")
            /\ (ret[p] # "LockTimeout" /\ ret'[p] = "LockTimeout")
               => (/\ pc[p] = "acquire" /\ lock # NoProc
                   /\ UNCHANGED <<file, temp, lock, mem, call>>)
            /\ ret[p] = "LockTimeout"
               => (/\ pc'[p] \in {"done", "idle"}
                   /\ pc'[p] = "idle" => call'[p] = NoCall
                   /\ file' # file => \E q \in Procs \ {p} : pc[q] = "rename")]_vars

\* an AddTODO has returned LockTimeout, the process that held the lock has
\* finished and is idle, and the task is not in the list
C12_Witness ==
    \E p, q \in Procs :
        /\ pc[p] = "done" /\ ret[p] = "LockTimeout"
        /\ call[p].op = "AddTODO"
        /\ call[p].args.id \notin IdsOf(Persisted)
        /\ pc[q] = "idle" /\ lock = NoProc
        /\ Len(Persisted) > 0

\* the list with the status of the task `id` set, and nothing else changed
WithStatus(list, id, status) ==
    [i \in 1..Len(list) |->
        IF list[i].id = id THEN [list[i] EXCEPT !.status = status] ELSE list[i]]

\* the transitions the gate applies to
Gated(current, status) == current = "pending" /\ status \in {"in_progress", "done"}

C14_AsStated ==
    (/\ last.op \in {"UpdateStatus", "UpdateStatusWithAgent"}
     /\ last.fault = "none"
     /\ last.res = "ok"
     /\ last.args.status \in {"in_progress", "done"}
     /\ \E i \in ItemsWith(Before, last.args.id) :
            Before[i].status # last.args.status)
    => ~HasUndoneDep(Before, last.args.id)

\* C15: UpdateStatusWithAgent changes the list only for a task whose
\* assignee is not empty and is the agent named; for a task in the list and
\* a valid status, an agent named and an assignee that is empty or another
\* give PermissionDenied and leave the file as it was, whatever the current
\* and the requested status and the statuses of the dependencies; with no
\* agent named the call fails and leaves the file as it was
C15_AgentPermission ==
    Did("UpdateStatusWithAgent")
    => /\ file # last.pre
          => \E i \in ItemsWith(Before, last.args.id) :
                Before[i].assignee # "" /\ Before[i].assignee = last.args.agentName
       /\ (/\ last.args.agentName # ""
           /\ last.args.status \in ValidStatuses
           /\ \E i \in ItemsWith(Before, last.args.id) :
                 Before[i].assignee = "" \/ Before[i].assignee # last.args.agentName)
          => (last.res = "PermissionDenied" /\ file = last.pre)
       /\ last.args.agentName = "" => (last.res # "ok" /\ file = last.pre)

\* agent a2 is refused the start of a pending task assigned to a1, none of
\* whose dependencies is undone
C15_Witness ==
    /\ Did("UpdateStatusWithAgent")
    /\ last.res = "PermissionDenied"
    /\ last.args.agentName = "a2"
    /\ last.args.status = "in_progress"
    /\ \E i \in ItemsWith(Before, last.args.id) :
          /\ Before[i].assignee = "a1"
          /\ Before[i].status = "pending"
          /\ Len(Before[i].depends_on) > 0
    /\ ~HasUndoneDep(Before, last.args.id)

\* the tools that require the admin mode
AdminTools ==
    {"add_todo", "remove_todo", "update_todo_assignee", "add_todo_dependency",
     "remove_todo_dependency"}

\* C16: in restricted mode the five admin tools fail with the admin-mode
\* error and leave the file as it was, and the only call that reaches the
\* Service is UpdateStatusWithAgent; so every call leaves the tasks, their
\* order, ids, titles, assignees and depends_on as they were, and changes
\* the status of a task only with an agent name equal to the task's assignee
C16_RestrictedFrame ==
    last # Idle
    => /\ last.op \in AdminTools \cup {"update_todo_status", "UpdateStatusWithAgent"}
       /\ last.op \in AdminTools
          => (last.res = "AdminModeRequired" /\ file = last.pre)
       /\ Len(Persisted) = Len(Before)
       /\ \A i \in 1..Len(Before) :
            /\ Persisted[i] = [Before[i] EXCEPT !.status = Persisted[i].status]
            /\ Persisted[i].status # Before[i].status
               => (/\ last.op = "UpdateStatusWithAgent"
                   /\ last.args.agentName # ""
                   /\ last.args.agentName = Before[i].assignee)

\* remove_todo of a task that is in the list and has no dependents has been
\* refused, and the task is still there
C16_Witness ==
    /\ last.op = "remove_todo"
    /\ last.res = "AdminModeRequired"
    /\ last.args.id \in IdsOf(Persisted)
    /\ DependentsOf(Persisted, last.args.id) = {}
    /\ Len(Persisted) = 2

\* the list the closure of the call that has returned handed to Save
Saved == Body([op |-> last.op, args |-> last.args], Before).list

\* C17: after a Save, a Load returns the list that was saved: the same
\* tasks in the same order, each with its id, title, status, assignee and
\* depends_on sequence, an empty depends_on included
C17_RoundTrip ==
    (/\ last # Idle
     /\ last.fault = "none"
     /\ last.res = "ok")
    => /\ Load(file).err = "ok"
       /\ Len(Load(file).list) = Len(Saved)
       /\ \A i \in 1..Len(Saved) :
            /\ Load(file).list[i].id = Saved[i].id
            /\ Load(file).list[i].title = Saved[i].title
            /\ Load(file).list[i].status = Saved[i].status
            /\ Load(file).list[i].assignee = Saved[i].assignee
            /\ Load(file).list[i].depends_on = Saved[i].depends_on

\* the list saved and loaded again holds a task with no dependency, done
\* and assigned, and one with two
C17_Witness ==
    /\ last # Idle
    /\ last.fault = "none"
    /\ last.res = "ok"
    /\ Len(Saved) = 2
    /\ Saved[1].depends_on = <<>>
    /\ Saved[1].status = "done"
    /\ Saved[1].assignee = "a1"
    /\ Len(Saved[2].depends_on) = 2
    /\ Load(file).list = Saved

\* C18: RemoveDependency fails with NotFound exactly when the task is not
\* in the list, whether or not the dependency named is a task; for a task
\* in the list that does not depend on it, it succeeds and leaves the list
\* as it was; after a success the task does not depend on it, so a second
\* RemoveDependency of the same edge succeeds and gives the same list
C18_IdempotentRemoval ==
    Did("RemoveDependency")
    => /\ last.res \in {"ok", "NotFound"}
       /\ last.res = "NotFound" <=> last.args.todoID \notin IdsOf(Before)
       /\ (/\ last.args.todoID \in IdsOf(Before)
           /\ last.args.dependsOnID \notin DepsOf(Before, last.args.todoID))
          => (last.res = "ok" /\ Persisted = Before)
       /\ last.res = "ok"
          => (/\ last.args.dependsOnID \notin DepsOf(Persisted, last.args.todoID)
              /\ RemoveDependencyBody(Persisted, last.args.todoID,
                                      last.args.dependsOnID)
                 = Store(Persisted, <<>>))

\* a task with another dependency is asked to drop one on an id that is no
\* task: success, and the list as it was
C18_Witness ==
    /\ Did("RemoveDependency")
    /\ last.res = "ok"
    /\ last.args.dependsOnID \notin IdsOf(Before)
    /\ DepsOf(Before, last.args.todoID) # {}
    /\ Persisted = Before

\* the list with one more dependency at the end of those of the task `id`
WithDependency(list, id, dep) ==
    [i \in 1..Len(list) |->
        IF list[i].id = id
        THEN [list[i] EXCEPT !.depends_on = Append(list[i].depends_on, dep)]
        ELSE list[i]]

\* what AddDependency(from, to) has to answer on a list, by the order of
\* its checks
AddDependencyAnswer(list, from, to) ==
    IF from = to THEN "ValidationError"
    ELSE IF from \notin IdsOf(list) \/ to \notin IdsOf(list) THEN "NotFound"
    ELSE IF from \in ReachableFrom(list, to) THEN "CircularDependency"
    ELSE IF to \in DepsOf(list, from) THEN "Conflict"
    ELSE "ok"

\* C19: AddDependency answers ValidationError for a task depending on
\* itself, in the list or not, else NotFound if either task is not in the
\* list, else CircularDependency if the edge would close a cycle, else
\* Conflict if the edge is there; every error leaves the file as it was;
\* otherwise it succeeds, and the list is the one before with the
\* dependency added at the end of the task's depends_on
C19_AddDependencyOrder ==
    Did("AddDependency")
    => /\ last.res = AddDependencyAnswer(Before, last.args.todoID, last.args.dependsOnID)
       /\ last.res # "ok" => file = last.pre
       /\ last.res = "ok"
          => Persisted = WithDependency(Before, last.args.todoID,
                                        last.args.dependsOnID)

\* a task that has one dependency gets a second, after the first
C19_Witness ==
    /\ Did("AddDependency")
    /\ last.res = "ok"
    /\ \E i \in ItemsWith(Before, last.args.todoID) :
          /\ Len(Before[i].depends_on) = 1
          /\ Persisted[i].depends_on
             = <<Before[i].depends_on[1], last.args.dependsOnID>>

\* what AddTODO has to answer on a list, by the order of its checks
AddTODOAnswer(list, id, title, dependsOn) ==
    IF id = "" \/ title = "" THEN "ValidationError"
    ELSE IF id \in IdsOf(list) THEN "Conflict"
    ELSE IF ~(Range(dependsOn) \subseteq IdsOf(list)) THEN "NotFound"
    ELSE "ok"

\* C20: AddTODO answers ValidationError for an empty id or title, else
\* Conflict for an id in the list, else NotFound for a dependsOn naming an
\* id that is not in the list, the new id included; every error leaves the
\* file as it was; otherwise it succeeds, returns the new task, and the
\* list is the one before followed by one task with the id, title,
\* assignee and dependsOn given and the status pending
C20_AddTODO ==
    Did("AddTODO")
    => /\ last.res = AddTODOAnswer(Before, last.args.id, last.args.title,
                                   last.args.dependsOn)
       /\ last.res # "ok" => file = last.pre
       /\ last.res = "ok"
          => (/\ Len(Persisted) = Len(Before) + 1
              /\ \A i \in 1..Len(Before) : Persisted[i] = Before[i]
              /\ Persisted[Len(Persisted)]
                 = [id |-> last.args.id, title |-> last.args.title,
                    status |-> "pending", assignee |-> last.args.assignee,
                    depends_on |-> last.args.dependsOn]
              /\ last.out = <<last.args.id>>)

\* a task assigned to a1 and depending on the task before it, which is
\* done, has been added after it
C20_Witness ==
    /\ Did("AddTODO")
    /\ last.res = "ok"
    /\ last.args.assignee = "a1"
    /\ Len(last.args.dependsOn) > 0
    /\ Len(Before) = 1
    /\ Before[1].status = "done"
    /\ Persisted[1] = Before[1]
    /\ Persisted[2].id = last.args.id
    /\ Persisted[2].status = "pending"

\* the k-th smallest of a set of indexes
Kth(S, k) == CHOOSE i \in S : Cardinality({j \in S : j < i}) = k - 1

\* the items of the list at the indexes S, in the order of the list
ItemsAt(list, S) == [k \in 1..Cardinality(S) |-> list[Kth(S, k)]]

\* every dependency of the item is a task that is done
AllDepsDone(list, item) ==
    \A d \in Range(item.depends_on) :
        /\ ItemsWith(list, d) # {}
        /\ \A j \in ItemsWith(list, d) : list[j].status = "done"

\* C21: GetReadyTODOs returns, in the order of the list, exactly the tasks
\* that are pending and whose every dependency is done, those with no
\* dependency included; so it returns no task that is in_progress or done
C21_Ready ==
    (Did("GetReadyTODOs") /\ last.res = "ok")
    => /\ last.out = ItemsAt(Persisted,
                             {i \in 1..Len(Persisted) :
                                 /\ Persisted[i].status = "pending"
                                 /\ AllDepsDone(Persisted, Persisted[i])})
       /\ \A k \in 1..Len(last.out) : last.out[k].status = "pending"

\* of three tasks the first is done, the second pending and ready with the
\* first as its dependency, the third pending and not ready
C21_Witness ==
    /\ Did("GetReadyTODOs")
    /\ Len(Persisted) = 3
    /\ Persisted[1].status = "done"
    /\ Persisted[3].status = "pending"
    /\ last.out = <<Persisted[2]>>
    /\ Len(Persisted[2].depends_on) > 0

\* the dependencies of the item that are not done, with id, title and status
UndoneDepInfos(list, item) ==
    {[id |-> list[j].id, title |-> list[j].title, status |-> list[j].status] :
        j \in {j \in 1..Len(list) :
                  list[j].id \in Range(item.depends_on) /\ list[j].status # "done"}}

\* C22: GetBlockedTODOs reports, in the order of the list, exactly the tasks
\* that are pending, have a dependency and have one that is not done, each
\* with its id, title, status and assignee; the blocked_by of each is not
\* empty and holds exactly its dependencies that are not done, each with
\* its id, title and status in the list
C22_Blocked ==
    (Did("GetBlockedTODOs") /\ last.res = "ok")
    => LET blocked == ItemsAt(Persisted,
                              {i \in 1..Len(Persisted) :
                                  /\ Persisted[i].status = "pending"
                                  /\ Len(Persisted[i].depends_on) > 0
                                  /\ ~AllDepsDone(Persisted, Persisted[i])})
       IN /\ Len(last.out) = Len(blocked)
          /\ \A k \in 1..Len(blocked) :
                /\ last.out[k].id = blocked[k].id
                /\ last.out[k].title = blocked[k].title
                /\ last.out[k].status = blocked[k].status
                /\ last.out[k].assignee = blocked[k].assignee
                /\ Len(last.out[k].blocked_by) > 0
                /\ Range(last.out[k].blocked_by) = UndoneDepInfos(Persisted, blocked[k])

\* a pending task with two dependencies, one done and one in progress, is
\* reported as blocked by the second only
C22_Witness ==
    /\ Did("GetBlockedTODOs")
    /\ Len(last.out) = 1
    /\ Len(last.out[1].blocked_by) = 1
    /\ last.out[1].blocked_by[1].status = "in_progress"
    /\ \E i \in ItemsWith(Persisted, last.out[1].id) :
          /\ Len(Persisted[i].depends_on) = 2
          /\ \E d \in Range(Persisted[i].depends_on) :
                \E j \in ItemsWith(Persisted, d) : Persisted[j].status = "done"

\* id, title and status of the tasks of the list with these ids
InfoSet(list, ids) ==
    {[id |-> list[j].id, title |-> list[j].title, status |-> list[j].status] :
        j \in {j \in 1..Len(list) : list[j].id \in ids}}

\* C23: GetDependencies fails with NotFound for an id that is not in the
\* list; for a task of the list it returns as direct the tasks of its
\* depends_on, in that order; with transitive set, the transitive list
\* holds, each once, exactly the tasks reachable from the task along
\* depends_on that are not direct, and never the task itself; with
\* transitive not set the transitive list is empty
C23_Dependencies ==
    Did("GetDependencies")
    => /\ last.res = "NotFound" <=> last.args.id \notin IdsOf(Persisted)
       /\ last.res \in {"ok", "NotFound"}
       /\ last.res = "ok"
          => \A i \in ItemsWith(Persisted, last.args.id) :
                /\ Len(last.out.Direct) = Len(Persisted[i].depends_on)
                /\ \A k \in 1..Len(last.out.Direct) :
                      {last.out.Direct[k]}
                      = InfoSet(Persisted, {Persisted[i].depends_on[k]})
                /\ ~last.args.transitive => last.out.Transitive = <<>>
                /\ last.args.transitive
                   => (/\ Range(last.out.Transitive)
                          = InfoSet(Persisted,
                                    ReachableFrom(Persisted, last.args.id)
                                    \ Range(Persisted[i].depends_on))
                       /\ \A k, m \in 1..Len(last.out.Transitive) :
                             last.out.Transitive[k].id = last.out.Transitive[m].id
                             => k = m
                       /\ \A k \in 1..Len(last.out.Transitive) :
                             last.out.Transitive[k].id # last.args.id)

\* a diamond: the task depends on two tasks that both depend on a third,
\* which is listed once as transitive
C23_Witness ==
    /\ Did("GetDependencies")
    /\ last.res = "ok"
    /\ last.args.transitive
    /\ Len(last.out.Direct) = 2
    /\ Len(last.out.Transitive) = 1
    /\ \A k \in 1..2 :
          last.out.Transitive[1].id \in DepsOf(Persisted, last.out.Direct[k].id)

\* C24: the Blocked error of a status update names exactly the dependencies
\* of the task that are not done, each with the status it has in the list,
\* and so no dependency that is done
C24_BlockedNames ==
    (/\ last.op \in {"UpdateStatus", "UpdateStatusWithAgent"}
     /\ last.fault = "none"
     /\ last.res = "Blocked")
    => /\ Range(last.out)
          = {<<Before[j].id, Before[j].status>> :
                j \in {j \in 1..Len(Before) :
                          /\ Before[j].id \in DepsOf(Before, last.args.id)
                          /\ Before[j].status # "done"}}
       /\ \A k \in 1..Len(last.out) :
             /\ Len(last.out[k]) = 2
             /\ last.out[k][2] # "done"
       /\ Len(last.out) > 0

\* a start is refused with both dependencies named, one pending and one in
\* progress
C24_Witness ==
    /\ Did("UpdateStatus")
    /\ last.res = "Blocked"
    /\ last.args.status = "in_progress"
    /\ Len(last.out) = 2
    /\ {last.out[1][2], last.out[2][2]} = {"pending", "in_progress"}

\* C25: the status of every task in the list is pending, in_progress or
\* done; a status update to any other literal fails with ValidationError
\* and leaves the file as it was
C25_StatusDomain ==
    /\ \A i \in 1..Len(Persisted) :
          Persisted[i].status \in {"pending", "in_progress", "done"}
    /\ (/\ last.op \in {"UpdateStatus", "UpdateStatusWithAgent"}
        /\ last.args.status \notin {"pending", "in_progress", "done"})
       => (last.res = "ValidationError" /\ file = last.pre)

\* an unknown literal has been refused for a task that is in the list and
\* in progress
C25_Witness ==
    /\ last.op = "UpdateStatus"
    /\ last.args.status = "bogus"
    /\ last.res = "ValidationError"
    /\ \E i \in ItemsWith(Persisted, last.args.id) :
          Persisted[i].status = "in_progress"

\* the sum of the values of a function to the naturals
RECURSIVE SumOf(_)
SumOf(f) ==
    IF DOMAIN f = {} THEN 0
    ELSE LET a == CHOOSE a \in DOMAIN f : TRUE
         IN f[a] + SumOf([b \in DOMAIN f \ {a} |-> f[b]])

\* C26: GetStatus returns the number of tasks as total, counts of pending,
\* in_progress and done that add up to it, and counts by assignee that have
\* no entry for the empty assignee, count each assignee's tasks, and add up
\* to the number of tasks with an assignee
C26_Summary ==
    (Did("GetStatus") /\ last.res = "ok")
    => /\ last.out.Total = Len(Persisted)
       /\ last.out.Pending + last.out.InProgress + last.out.Done = last.out.Total
       /\ last.out.Pending = Cardinality({i \in 1..Len(Persisted) : Persisted[i].status = "pending"})
       /\ "" \notin DOMAIN last.out.ByAssignee
       /\ \A a \in DOMAIN last.out.ByAssignee :
             last.out.ByAssignee[a]
             = Cardinality({i \in 1..Len(Persisted) : Persisted[i].assignee = a})
       /\ SumOf(last.out.ByAssignee)
          = Cardinality({i \in 1..Len(Persisted) : Persisted[i].assignee # ""})

\* three tasks, one of each status, one for each of two agents and one for
\* no one
C26_Witness ==
    /\ Did("GetStatus")
    /\ last.out.Total = 3
    /\ last.out.Pending = 1 /\ last.out.InProgress = 1 /\ last.out.Done = 1
    /\ DOMAIN last.out.ByAssignee = {"a1", "a2"}
    /\ SumOf(last.out.ByAssignee) = 2

\* C27: the output of get_todo_status describes one state of the list, so
\* its ready and blocked counts add up to its pending count; stated in the
\* case most in its favour, where none of the three calls of the handler
\* failed
C27_AsStated ==
    (/\ pc[ToolProc] = "done"
     /\ call[ToolProc] = ToolCall("get_todo_status", <<>>)
     /\ ret[ToolProc].err = "ok"
     /\ mem[ToolProc].readyErr = "ok"
     /\ mem[ToolProc].blockedErr = "ok")
    => ret[ToolProc].out.Ready + ret[ToolProc].out.Blocked
       = ret[ToolProc].out.Pending

\* C28: no task of the persisted list names the same id twice in its
\* depends_on, whatever operations led to the list
C28_AsStated ==
    \A i \in 1..Len(Persisted) :
       \A j, k \in 1..Len(Persisted[i].depends_on) :
          j # k => Persisted[i].depends_on[j] # Persisted[i].depends_on[k]

\* the objects of the document the last call found that have no depends_on
\* key
WithoutDependsOn ==
    IF last.pre.kind = "json"
    THEN {i \in 1..Len(last.pre.items) : "depends_on" \notin DOMAIN last.pre.items[i]}
    ELSE {}

\* C29: a call that finds no file or a zero-length one works on the empty
\* list; one that finds a file that is not JSON fails with the parse error
\* and leaves the file alone; a task stored without depends_on is loaded
\* with no dependencies, so that it is ready while pending and its status
\* can be set to anything
C29_Load ==
    /\ (Did("ListTODOs") /\ last.pre.kind \in {"absent", "empty"})
       => last.res = "ok" /\ last.out = <<>>
    /\ (last # Idle /\ last.fault = "none" /\ last.pre.kind = "torn")
       => last.res = "LoadError" /\ file = last.pre
    /\ Did("ListTODOs")
       => \A i \in WithoutDependsOn :
             /\ last.res = "ok"
             /\ last.out[i].id = last.pre.items[i].id
             /\ last.out[i].depends_on = <<>>
    /\ Did("GetReadyTODOs")
       => \A i \in WithoutDependsOn :
             last.pre.items[i].status = "pending"
             => \E k \in 1..Len(last.out) : last.out[k].id = last.pre.items[i].id
    /\ Did("UpdateStatus")
       => \A i \in WithoutDependsOn :
             last.pre.items[i].id = last.args.id
             => /\ last.res = "ok"
                /\ Persisted[i].status = last.args.status

\* a zero-length file listed as the empty list
C29_Witness ==
    /\ Did("ListTODOs")
    /\ last.pre = EmptyFile
    /\ last.res = "ok"
    /\ last.out = <<>>

\* a process is inside FileStorage.Save
InSave(p) == pc[p] \in {"save", "writing", "rename"}

\* the step is the os.Rename of p, and it succeeds or fails
Renamed(p, res) ==
    pc[p] = "rename" /\ pc'[p] = "unlock" /\ ret'[p] = res

\* C30: while a Save runs the backing file changes only by the rename that
\* completes it, so a Save that fails at any step leaves the file as it was
\* before the call; a failed rename removes the temporary file; a Save that
\* succeeds leaves no temporary file, and the backing file holds the list
\* it was given
C30_Save ==
    [][/\ ((\E p \in Procs : InSave(p))
           /\ ~(\E p \in Procs : Renamed(p, "ok")))
          => file' = file
       /\ \A p \in Procs :
             /\ Renamed(p, "SaveError") => temp' = NoFile
             /\ Renamed(p, "ok")
                => temp' = NoFile /\ file' = JSONFile(mem[p])]_vars

\* a Save has failed after writing part of the temporary file, and the
\* backing file still holds a whole document
C30_Witness ==
    \E p \in Procs :
       /\ pc[p] = "unlock"
       /\ ret[p] = "SaveError"
       /\ temp = TornFile
       /\ file.kind = "json"

\* C31: AddDependency between two different tasks of the list, for an edge
\* that is not there yet and with the first task not reachable from the
\* second, succeeds and appends the edge; and on the persisted list
\* detectCircularDependency answers true exactly when its first task is its
\* second or is reachable from it
C31_NoFalsePositive ==
    /\ (/\ Did("AddDependency")
        /\ last.args.todoID # last.args.dependsOnID
        /\ last.args.todoID \in IdsOf(Before)
        /\ last.args.dependsOnID \in IdsOf(Before)
        /\ last.args.dependsOnID \notin DepsOf(Before, last.args.todoID)
        /\ last.args.todoID \notin ReachableFrom(Before, last.args.dependsOnID))
       => /\ last.res = "ok"
          /\ DepsOf(Persisted, last.args.todoID)
             = DepsOf(Before, last.args.todoID) \cup {last.args.dependsOnID}
    /\ \A a, b \in DepsIDs \cup {"t5"} :
          detectCircularDependency(Persisted, a, b)
          <=> (a = b \/ a \in ReachableFrom(Persisted, b))

\* the edge from t4 to t3 added when t4 depends on t2 and both t2 and t3
\* depend on t1: the second path from t4 to t1
C31_Witness ==
    /\ Did("AddDependency")
    /\ last.res = "ok"
    /\ last.args.todoID = "t4" /\ last.args.dependsOnID = "t3"
    /\ "t2" \in DepsOf(Before, "t4")
    /\ "t1" \in DepsOf(Before, "t2")
    /\ "t1" \in DepsOf(Before, "t3")
    /\ "t3" \in DepsOf(Persisted, "t4")

\* the process is running a method of the Service
InService(p) == call[p].op \notin {"none", "Load"}

QueryOps ==
    {"ListTODOs", "GetStatus", "GetReadyTODOs", "GetBlockedTODOs",
     "GetDependencies"}

\* how far a call has come: before the lock, the lock taken, the list
\* loaded, in Save, the closure over, the lock released
Phase(at) ==
    CASE at = "idle" -> 0
      [] at = "acquire" -> 1
      [] at = "locked" -> 2
      [] at = "loaded" -> 3
      [] at \in {"save", "writing", "rename"} -> 4
      [] at = "unlock" -> 5
      [] at = "done" -> 6
      [] OTHER -> 7

\* C32: a call of the Service never goes back to an earlier phase, so it
\* takes the lock, loads and saves at most once; it takes the lock only
\* from waiting for it, loads as its first step under the lock, and enters
\* Save only from the loaded list, when it is no query and its validation
\* passed; it holds the lock exactly from taking it to the end of its
\* closure, so every Load and Save of the Service is under the lock and the
\* lock is given up before the call returns
C32_OneCycle ==
    [][\A p \in Procs :
          (InService(p) /\ pc'[p] # pc[p])
          => /\ \/ Phase(pc'[p]) > Phase(pc[p])
                \/ pc[p] = "done" /\ pc'[p] = "idle"
                \/ InSave(p) /\ InSave(p)'
             /\ Phase(pc'[p]) < 7
             /\ (lock # p /\ lock' = p) <=> (pc[p] = "acquire" /\ pc'[p] = "locked")
             /\ pc[p] = "locked" => pc'[p] \in {"loaded", "unlock"}
             /\ (InSave(p)' /\ ~InSave(p))
                => /\ pc[p] = "loaded"
                   /\ call[p].op \notin QueryOps
                   /\ Body(call[p], mem[p]).err = "ok"
             /\ (lock' = p) <=> (Phase(pc'[p]) \in 2..5)
             /\ (lock = p /\ lock' # p) <=> (pc[p] = "unlock")]_vars

\* a query has run its closure without a Save and still holds the lock,
\* while the other process has tried the lock once
C32_Witness ==
    \E p, q \in Procs :
       /\ call[p].op = "GetReadyTODOs"
       /\ pc[p] = "unlock" /\ ret[p] = "ok" /\ lock = p
       /\ InService(q) /\ pc[q] = "acquire" /\ tries[q] = 1
       /\ file.kind = "json"

\* C33: a call of the process that keeps running returns, whatever the
\* other process does or fails to do: from any point of a call the process
\* comes to the return of its method
C33_Returns == (pc[LiveProc] # "idle") ~> (pc[LiveProc] = "done")

\* the call has given up with LockTimeout while the other process, in its
\* closure, still holds the lock
C33_Witness ==
    /\ pc[LiveProc] = "done"
    /\ ret[LiveProc] = "LockTimeout"
    /\ \E q \in Procs \ {LiveProc} : lock = q /\ pc[q] = "loaded"

\* both processes have returned from their calls, which were these
BothReturned(c1, c2) ==
    /\ pc["p1"] = "done" /\ call["p1"] = c1
    /\ pc["p2"] = "done" /\ call["p2"] = c2

\* the edges between t1 and t2 in the persisted list
EdgesBetween ==
    {e \in {<<"t1", "t2">>, <<"t2", "t1">>} : e[2] \in DepsOf(Persisted, e[1])}

DependOnT1 ==
    {AddTODOCall("t3", "A", "", <<"t1">>), AddDependencyCall("t2", "t1")}

\* no task of the persisted list depends on an id that is not in the list
NoDangling ==
    \A i \in 1..Len(Persisted) :
       Range(Persisted[i].depends_on) \subseteq IdsOf(Persisted)

C36_AsStated ==
    \A i \in 1..Len(Persisted) :
       Persisted[i].status \in {"in_progress", "done"}
       => ~HasUndoneDep(Persisted, Persisted[i].id)

\* the ids of the tasks in an answer
AnswerIds(out) == {out[k].id : k \in 1..Len(out)}

\* how many entries of an answer have this id
TimesIn(out, id) == Cardinality({k \in 1..Len(out) : out[k].id = id})

\* C37: on the persisted list the answers of GetReadyTODOs and
\* GetBlockedTODOs share no task, every pending task is in one of them,
\* once, and no other task is in either; and these are the answers the
\* calls give
C37_Partition ==
    LET ready == GetReadyTODOsBody(Persisted).out
        blocked == GetBlockedTODOsBody(Persisted).out
    IN /\ \A i \in 1..Len(Persisted) :
             TimesIn(ready, Persisted[i].id) + TimesIn(blocked, Persisted[i].id)
             = IF Persisted[i].status = "pending" THEN 1 ELSE 0
       /\ AnswerIds(ready) \cup AnswerIds(blocked) \subseteq IdsOf(Persisted)
       /\ (Did("GetReadyTODOs") /\ last.res = "ok") => last.out = ready
       /\ (Did("GetBlockedTODOs") /\ last.res = "ok") => last.out = blocked

\* of three tasks one is done, one pending and ready having it as its
\* dependency, one pending and blocked by the second
C37_Witness ==
    /\ Did("GetBlockedTODOs")
    /\ Len(Persisted) = 3
    /\ Len(last.out) = 1
    /\ Len(GetReadyTODOsBody(Persisted).out) = 1
    /\ Len(GetReadyTODOsBody(Persisted).out[1].depends_on) = 1
    /\ \E i \in 1..3 : Persisted[i].status = "done"

\* the agent named is the assignee of the task
ByAssignee(list, id, agentName) ==
    /\ agentName # ""
    /\ \E i \in ItemsWith(list, id) : list[i].assignee = agentName

\* C38: UpdateStatusWithAgent called by the assignee of the task, with any
\* status, gives the answer and leaves the list that UpdateStatus with the
\* same id and status gives on the list it found
C38_SameAsPrivileged ==
    (/\ Did("UpdateStatusWithAgent")
     /\ ByAssignee(Before, last.args.id, last.args.agentName))
    => LET c == UpdateStatusCall(last.args.id, last.args.status)
       IN IF PreLock(c) # "ok"
          THEN last.res = PreLock(c) /\ file = last.pre
          ELSE /\ last.res = Body(c, Before).err
               /\ last.out = Body(c, Before).out
               /\ Persisted = Body(c, Before).list

\* the assignee of a pending task is refused its completion, a dependency
\* not being done
C38_Witness ==
    /\ Did("UpdateStatusWithAgent")
    /\ ByAssignee(Before, last.args.id, last.args.agentName)
    /\ last.args.status = "done"
    /\ last.res = "Blocked"
    /\ Len(last.out) > 0

\* the two lists have the same tasks in the same order, the same but for
\* one field of the tasks with this id, which has this value
SameButField(before, after, id, field, value) ==
    /\ Len(after) = Len(before)
    /\ \A i \in 1..Len(before) :
          /\ \A f \in {"id", "title", "status", "assignee", "depends_on"} \ {field} :
                after[i][f] = before[i][f]
          /\ after[i][field] = IF before[i].id = id THEN value ELSE before[i][field]

\* C39: a query, whether it succeeds or fails, leaves the file as it was
\* and has no Save that could fail; UpdateStatus when it succeeds changes
\* the status of the task named and nothing else, UpdateAssignee its
\* assignee and nothing else
C39_Frame ==
    /\ (last # Idle /\ last.op \in QueryOps)
       => /\ file = last.pre
          /\ last.fault # "save"
          /\ last.res # "SaveError"
    /\ (Did("UpdateStatus") /\ last.res = "ok")
       => SameButField(Before, Persisted, last.args.id, "status", last.args.status)
    /\ (Did("UpdateAssignee") /\ last.res = "ok")
       => SameButField(Before, Persisted, last.args.id, "assignee", last.args.assignee)

\* the first of two tasks, on which the second depends, given to an agent
C39_Witness ==
    /\ Did("UpdateAssignee")
    /\ last.res = "ok"
    /\ Len(Before) = 2
    /\ Before[1].id = last.args.id
    /\ Before[1].assignee = "" /\ Persisted[1].assignee = "a1"
    /\ Len(Before[2].depends_on) > 0

\* the dependencies of the item that name no task of the list, and those
\* that block it: the ones that name none or name one that is not done
DanglingDeps(list, item) == Range(item.depends_on) \ IdsOf(list)
BlockingDeps(list, item) ==
    {d \in Range(item.depends_on) :
        d \notin IdsOf(list) \/ \E j \in ItemsWith(list, d) : list[j].status # "done"}

\* the pending tasks of the list with a dangling dependency
PendingDangling(list) ==
    {i \in 1..Len(list) :
        list[i].status = "pending" /\ DanglingDeps(list, list[i]) # {}}

\* a pending task with a dangling dependency cannot be started or
\* completed, the Blocked error naming the dangling ids, and it is not among
\* the ready tasks
DanglingBlocks ==
    /\ (/\ Did("UpdateStatus")
        /\ last.args.status \in {"in_progress", "done"}
        /\ \E i \in PendingDangling(Before) : Before[i].id = last.args.id)
       => /\ last.res = "Blocked"
          /\ file = last.pre
          /\ \A i \in PendingDangling(Before) :
                Before[i].id = last.args.id
                => \A d \in DanglingDeps(Before, Before[i]) : <<d>> \in Range(last.out)
    /\ Did("GetReadyTODOs")
       => /\ last.res = "ok"
          /\ \A i \in PendingDangling(Persisted) :
                Persisted[i].id \notin AnswerIds(last.out)

\* C40: besides, GetBlockedTODOs reports the task with its blocking
\* dependencies, the dangling ones among them
C40_AsStated ==
    /\ DanglingBlocks
    /\ Did("GetBlockedTODOs")
       => /\ last.res = "ok"
          /\ \A i \in PendingDangling(Persisted) :
                \E k \in 1..Len(last.out) :
                   /\ last.out[k].id = Persisted[i].id
                   /\ AnswerIds(last.out[k].blocked_by)
                      = BlockingDeps(Persisted, Persisted[i])

====
